---- MODULE Spec2Model ----
(***************************************************************************)
(* SoundMaxx worker: the job engine (worker/app/main.py), its HTTP surface *)
(* and the bearer-token check (worker/app/security.py).                    *)
(*                                                                         *)
(* Text is modelled as a sequence of segments (a string is the             *)
(* concatenation of its segments), so that concatenation, prefix tests and *)
(* slicing are computed and not assumed.                                   *)
(***************************************************************************)
EXTENDS Integers, Sequences, FiniteSets, TLC

VARIABLES
    WORKER_API_KEY,   \* the environment variable read by worker_api_key()
    job_statuses,     \* jobId -> index of the registered WorkerJobStatus object (0: no entry)
    heap,             \* the WorkerJobStatus objects, one per accepted POST /jobs
    tasks,            \* the executions created by asyncio.create_task, in creation order
    workspace,        \* job ids whose <TMP_ROOT>/<jobId> directory exists
    output_dir,       \* job ids whose <OUTPUT_ROOT>/<jobId> directory exists
    accepted,         \* history: job ids some POST /jobs registered
    http              \* the request the last step handled and its response (NoResponse
                      \* when the last step was a step of an execution)

\* The source cache (main.py, stage_source_audio and prune_source_cache).
VARIABLES
    SOURCE_CACHE_MAX_BYTES,    \* env_int("SOURCE_CACHE_MAX_BYTES", ...), fixed at import
    SOURCE_CACHE_MAX_FILES,    \* env_int("SOURCE_CACHE_MAX_FILES", ...), fixed at import
    cache_root,                \* the files of SOURCE_CACHE_ROOT: name, mtime, size
    SOURCE_CACHE_PRUNE_LOCK,   \* the stage call that holds the lock (0: free)
    stagers,                   \* the stage_source_audio calls (one thread each), in call order
    clock                      \* the file system's time, for mtimes

\* One call of a tool of processing.py.
VARIABLES
    stem_call,      \* a stem isolation call: its inputs, then what it returned
    mastering_call, \* a process_mastering call: its inputs, then what it returned
    callback_call,  \* a post_callback call: its inputs, then the request it sent
    training_call,  \* a run_training_cycle call: its inputs, then what it returned
    sandbox_run     \* a run_processing_with_hard_timeout call: the parent, the child, the queue

\* The dataset ledger (dataset.py, capture_training_sample).
VARIABLES
    captures,      \* the capture_training_sample calls (one thread each), in call order
    sample_dirs,   \* sample_id -> the files of <DATASET_ROOT>/samples/<sample_id>
    manifest       \* the contents of <DATASET_ROOT>/manifest.jsonl

engineVars == <<WORKER_API_KEY, job_statuses, heap, tasks, workspace, output_dir, accepted, http>>

cacheVars == <<SOURCE_CACHE_MAX_BYTES, SOURCE_CACHE_MAX_FILES, cache_root,
               SOURCE_CACHE_PRUNE_LOCK, stagers, clock>>

\* What a step of the job engine leaves alone, and what a step of the cache leaves alone.
toolVars == <<stem_call, mastering_call, callback_call, training_call, sandbox_run>>

ledgerVars == <<captures, sample_dirs, manifest>>

outsideEngine == <<cacheVars, toolVars, ledgerVars>>
outsideCache == <<engineVars, toolVars, ledgerVars>>
outsideTools == <<engineVars, cacheVars, ledgerVars>>
outsideLedger == <<engineVars, cacheVars, toolVars>>

vars == <<engineVars, cacheVars, toolVars, ledgerVars>>

-----------------------------------------------------------------------------
(* Bounds *)

MaxTasks == 2       \* POST /jobs requests accepted in one run
ShortLen == 5       \* length of a short exception message
LongLen == 121      \* length of a long exception message (longer than the slice)

(* Program constants *)

ErrorCodeLen == 120   \* str(exc)[:120]
QueuedEtaSec == 180
QueuedProgressPct == 5
RunningProgressPct == 20
StagedProgressPct == 40
DoneProgressPct == 100

JobIds == {"j1", "j2"}

ToolType == {"stem_isolation", "mastering", "key_bpm", "loudness_report", "midi_extract"}

None == <<"None">>     \* Python's None, for optional text and optional integers
Unset == "(unset)"     \* an environment variable that is not set

Min(a, b) == IF a <= b THEN a ELSE b

-----------------------------------------------------------------------------
(* security.py *)

NonAsciiSegments == {"\\u00e9"}

IsAscii(text) == \A i \in 1..Len(text) : text[i] \notin NonAsciiSegments

\* The keys the environment may hold: unset, or a key.
ApiKey == <<"k">>
ApiKeys == {None, ApiKey}

\* The Authorization headers a client may send (None: no header).
Headers ==
    { None,
      <<>>,
      <<"Bearer ", "k">>,
      <<"Bearer ", "k", "x">>,
      <<"Bearer ", "\\u00e9">>,
      <<"k">> }

\* worker_api_key(): "ok" with the value, or RuntimeError when unset or empty.
worker_api_key ==
    IF WORKER_API_KEY = None \/ WORKER_API_KEY = <<>>
    THEN [raises |-> "RuntimeError", value |-> <<>>]
    ELSE [raises |-> "no", value |-> WORKER_API_KEY]

\* hmac.compare_digest on two str: TypeError unless both are ASCII.
compare_digest(a, b) ==
    IF IsAscii(a) /\ IsAscii(b)
    THEN [raises |-> "no", value |-> (a = b)]
    ELSE [raises |-> "TypeError", value |-> FALSE]

\* assert_bearer_token(auth_header): the exception it raises, "no" when it returns.
assert_bearer_token(auth_header) ==
    IF auth_header = None \/ auth_header = <<>>
    THEN "PermissionError:Missing authorization header"
    ELSE IF worker_api_key.raises # "no"
    THEN worker_api_key.raises
    ELSE LET expected == <<"Bearer ">> \o worker_api_key.value
             cmp == compare_digest(auth_header, expected)
         IN  IF cmp.raises # "no" THEN cmp.raises
             ELSE IF ~cmp.value THEN "PermissionError:Invalid bearer token"
             ELSE "no"

\* The handlers' try/except around assert_bearer_token: PermissionError becomes
\* HTTPException(401); any other exception leaves the handler (500).
AuthResponse(auth_header) ==
    LET r == assert_bearer_token(auth_header)
    IN  IF r = "no" THEN [code |-> 0, detail |-> ""]
        ELSE IF r = "PermissionError:Missing authorization header"
        THEN [code |-> 401, detail |-> "Missing authorization header"]
        ELSE IF r = "PermissionError:Invalid bearer token"
        THEN [code |-> 401, detail |-> "Invalid bearer token"]
        ELSE [code |-> 500, detail |-> "Internal Server Error"]

-----------------------------------------------------------------------------
(* models.py, main.py: requests, status records, files *)

\* params["stems"]: absent, an integer, or a value int() rejects.
StemsAbsent == [kind |-> "absent", int |-> 0]
StemsParams == {StemsAbsent, [kind |-> "int", int |-> 2], [kind |-> "str", int |-> 0]}

\* The valid JobRequest bodies (pydantic has validated them: 422 otherwise).
\* dataset.captureMode is always "implied_use" (its only literal).
JobRequest ==
    { [jobId |-> j, toolType |-> "stem_isolation", stems |-> s, captureMode |-> "implied_use"] :
        j \in JobIds, s \in StemsParams }
    \cup
    { [jobId |-> j, toolType |-> tt, stems |-> StemsAbsent, captureMode |-> "implied_use"] :
        j \in JobIds, tt \in ToolType \ {"stem_isolation"} }

\* int(job.params.get("stems", 4)): the value, or ValueError.
params_stems(job) ==
    IF job.stems.kind = "absent" THEN [raises |-> "no", value |-> 4]
    ELSE IF job.stems.kind = "int" THEN [raises |-> "no", value |-> job.stems.int]
    ELSE [raises |-> "ValueError", value |-> 0]

initial_model(tool_type) ==
    IF tool_type = "stem_isolation" THEN <<"UVR-MDX-NET-Inst_HQ_5.onnx">>
    ELSE IF tool_type = "mastering" THEN <<"matchering_2_0">>
    ELSE IF tool_type = "key_bpm" THEN <<"essentia">>
    ELSE IF tool_type = "loudness_report" THEN <<"pyloudnorm">>
    ELSE <<"basic_pitch">>

\* A file a tool returned: file.stem, file.suffix, and whether it exists on disk.
File(stem, suffix, exists) == [stem |-> stem, suffix |-> suffix, exists |-> exists, size |-> 1]

\* str.startswith
startswith(text, prefix) ==
    Len(text) >= Len(prefix) /\ SubSeq(text, 1, Len(prefix)) = prefix

\* file.suffix.replace(".", "") or "bin"
artifact_format(file) ==
    LET stripped == SelectSeq(file.suffix, LAMBDA seg : seg # ".")
    IN  IF stripped = <<>> THEN <<"bin">> ELSE stripped

\* ArtifactPayload for one produced file.
ArtifactPayload(job_id, file) ==
    [ blobUrl |-> <<"PUBLIC_BASE_URL", "/outputs/", job_id, "/">> \o file.stem \o file.suffix,
      blobKey |-> file.stem \o file.suffix,
      format |-> artifact_format(file),
      sizeBytes |-> file.size ]

\* The loop over produced_files: files that do not exist are skipped.
RECURSIVE build_artifacts(_, _)
build_artifacts(job_id, produced_files) ==
    IF produced_files = <<>> THEN <<>>
    ELSE LET file == Head(produced_files)
             rest == build_artifacts(job_id, Tail(produced_files))
         IN  IF ~file.exists THEN rest
             ELSE <<ArtifactPayload(job_id, file)>> \o rest

\* Mutant of QueuedStatus: the record is built as the first step of the execution
\* leaves it.
QueuedStatusAlreadyRunning(job) ==
    [ externalJobId |-> job.jobId,
      status |-> "running",
      model |-> initial_model(job.toolType),
      etaSec |-> QueuedEtaSec,
      progressPct |-> RunningProgressPct,
      errorCode |-> None,
      artifacts |-> <<>> ]

\* WorkerJobStatus(...) as create_job builds it.
QueuedStatus(job) ==
    [ externalJobId |-> job.jobId,
      status |-> "queued",
      model |-> initial_model(job.toolType),
      etaSec |-> QueuedEtaSec,
      progressPct |-> QueuedProgressPct,
      errorCode |-> None,
      artifacts |-> <<>> ]

\* str(exc)[:120]
error_code(message) == SubSeq(message, 1, Min(Len(message), ErrorCodeLen))

\* An exception message of n characters.
Message(n) == [i \in 1..n |-> "e"]

\* qualityFlags of the succeeded payload.
quality_flags(model_name) ==
    IF startswith(model_name, <<"fallback_">>) THEN <<"fallback_passthrough_output">> ELSE <<>>

-----------------------------------------------------------------------------
(* processing.py: what the tool calls return to execute_job *)

Wav == <<".", "wav">>
Json == <<".", "json">>

\* The stem files of build_stem_timeout_fallback and process_stem_isolation:
\* <input stem>-<name>.wav per stem, then <input stem>-stems.zip.
StemFiles(stems) ==
    ( IF stems >= 4
      THEN << File(<<"input", "-vocals">>, Wav, TRUE), File(<<"input", "-drums">>, Wav, TRUE),
              File(<<"input", "-bass">>, Wav, TRUE), File(<<"input", "-other">>, Wav, TRUE) >>
      ELSE << File(<<"input", "-vocals">>, Wav, TRUE),
              File(<<"input", "-accompaniment">>, Wav, TRUE) >> )
    \o << File(<<"input", "-stems">>, <<".", "zip">>, TRUE) >>

\* The (model_name, produced_files) pairs run_processing can return for a job.
ToolReturns(job) ==
    IF job.toolType = "stem_isolation"
    THEN IF params_stems(job).raises # "no" THEN {}
         ELSE { [model |-> <<"UVR-MDX-NET-Inst_HQ_5.onnx">>,
                 files |-> StemFiles(params_stems(job).value)] }
    ELSE IF job.toolType = "mastering"
    THEN { [model |-> <<m>>,
            files |-> << File(<<"input", "-mastered">>, Wav, TRUE),
                         File(<<"mastering-report">>, Json, TRUE) >>] :
             m \in {"matchering_2_0", "sonicmaster", "adaptive_dsp_mastering"} }
    ELSE IF job.toolType = "key_bpm"
    THEN { [model |-> <<"essentia">>, files |-> << File(<<"key-bpm">>, Json, TRUE) >>] }
    ELSE IF job.toolType = "loudness_report"
    THEN { [model |-> <<"pyloudnorm">>, files |-> << File(<<"loudness-report">>, Json, TRUE) >>] }
    ELSE { [model |-> <<"basic_pitch">>,
            files |-> << File(<<"extracted">>, <<".", "mid">>, TRUE),
                         File(<<"notes">>, Json, TRUE) >>] }

\* A returned list whose last file is gone from disk by the time it is listed.
LastMissing(files) ==
    [i \in 1..Len(files) |-> IF i = Len(files) THEN [files[i] EXCEPT !.exists = FALSE] ELSE files[i]]

Returned(r) == [raises |-> "no", message |-> <<>>, model |-> r.model, files |-> r.files]
Raised(type, message) == [raises |-> type, message |-> message, model |-> <<>>, files |-> <<>>]

\* Outcomes of run_processing (inline tools): a result, or an exception.
run_processing(job) ==
    { Returned(r) : r \in ToolReturns(job) }
    \cup { Returned([r EXCEPT !.files = LastMissing(r.files)]) : r \in ToolReturns(job) }
    \cup { Raised("RuntimeError", Message(LongLen)) }

\* Outcomes of run_processing_with_hard_timeout: the child's result, TimeoutError when
\* the child outlives timeout_sec, RuntimeError for {ok: false} and for no message.
run_processing_with_hard_timeout(job) ==
    { Returned(r) : r \in ToolReturns(job) }
    \cup { Raised("TimeoutError", Message(ShortLen)) }
    \cup { Raised("RuntimeError", Message(LongLen)) }

\* Outcomes of build_stem_timeout_fallback(input_path, output_dir, stems).
build_stem_timeout_fallback(stems) ==
    { Returned([model |-> <<"fallback_", "band_split">>, files |-> StemFiles(stems)]),
      Raised("RuntimeError", Message(ShortLen)) }

\* Mutant of CaughtByFallback: `except Exception` around the sandbox call.
CaughtByFallbackAnyError(exc_type) == exc_type # "no"

\* except TimeoutError: the exception types the inner handler of execute_job catches.
CaughtByFallback(exc_type) == exc_type = "TimeoutError"

-----------------------------------------------------------------------------
(* main.py: state *)

\* The positions of an execution: before its first step, at each await, and ended.
\*   "crashed": an exception left execute_job (the task ended with it).
Pcs == {"scheduled", "cb_running", "stage", "sandbox", "fallback", "tool",
        "capture", "cb_succeeded", "cb_failed", "done", "crashed"}
Ended == {"done", "crashed"}

NoResponse == [op |-> "none", header |-> None, jobId |-> "", code |-> 0, detail |-> "", body |-> <<>>]

\* The execution asyncio.create_task(execute_job(job, external_job_id)) creates.
\*   status: index in heap of the object execute_job reads from job_statuses (0: not yet)
\*   exc, raised_at: the first exception that reached the handlers of execute_job
\*   sandbox: how run_processing_with_hard_timeout ended ("none": not called)
\*   posts: the webhook POSTs attempted, in order
NewTask(job) ==
    [ job |-> job, pc |-> "scheduled", status |-> 0,
      model_name |-> <<>>, produced_files |-> <<>>,
      exc |-> None, raised_at |-> "none",
      sandbox |-> "none", fallback_calls |-> 0, capture_calls |-> 0,
      posts |-> <<>> ]

\* The job engine before its first request.
InitEngineVars ==
    /\ job_statuses = [j \in JobIds |-> 0]
    /\ heap = <<>>
    /\ tasks = <<>>
    /\ workspace = {}
    /\ output_dir = {}
    /\ accepted = {}
    /\ http = NoResponse

\* The source cache with both limits off, empty, with no stage call in progress.
IdleCache ==
    /\ SOURCE_CACHE_MAX_BYTES = 0
    /\ SOURCE_CACHE_MAX_FILES = 0
    /\ cache_root = {}
    /\ SOURCE_CACHE_PRUNE_LOCK = 0
    /\ stagers = <<>>
    /\ clock = 0

\* No tool call made yet.
NoCall == [pc |-> "none"]

IdleTools ==
    /\ stem_call = NoCall /\ mastering_call = NoCall
    /\ callback_call = NoCall /\ training_call = NoCall /\ sandbox_run = NoCall

\* An empty dataset root, no capture in progress.
IdleLedger ==
    /\ captures = <<>>
    /\ sample_dirs = {}
    /\ manifest = <<>>

Init ==
    /\ WORKER_API_KEY \in ApiKeys
    /\ InitEngineVars
    /\ IdleCache
    /\ IdleTools
    /\ IdleLedger

-----------------------------------------------------------------------------
(* main.py: HTTP handlers *)

\* create_job, lines 296-307, once the bearer check passed: the new registry, heap and
\* task list, and the object returned as the response.
RegisterJob(job) ==
    /\ heap' = Append(heap, QueuedStatus(job))
    /\ job_statuses' = [job_statuses EXCEPT ![job.jobId] = Len(heap) + 1]
    /\ tasks' = Append(tasks, NewTask(job))
    /\ accepted' = accepted \cup {job.jobId}

\* POST /jobs
create_job(headers, jobs) ==
    \E auth_header \in headers, job \in jobs :
        LET auth == AuthResponse(auth_header)
        IN  IF auth.code # 0
            THEN /\ http' = [op |-> "POST", header |-> auth_header, jobId |-> job.jobId,
                             code |-> auth.code, detail |-> auth.detail, body |-> <<>>]
                 /\ UNCHANGED <<outsideEngine, WORKER_API_KEY, job_statuses, heap, tasks, workspace,
                                output_dir, accepted>>
            ELSE /\ Len(tasks) < MaxTasks
                 /\ RegisterJob(job)
                 /\ http' = [op |-> "POST", header |-> auth_header, jobId |-> job.jobId,
                             code |-> 200, detail |-> "", body |-> <<heap'[job_statuses'[job.jobId]]>>]
                 /\ UNCHANGED <<outsideEngine, WORKER_API_KEY, workspace, output_dir>>

\* Mutant of JobNotFound: a finished job is evicted from what GET can see.
JobNotFoundOnceFinished(external_job_id) ==
    \/ job_statuses[external_job_id] = 0
    \/ heap[job_statuses[external_job_id]].status \in {"succeeded", "failed"}

\* status = job_statuses.get(external_job_id); if not status: 404
JobNotFound(external_job_id) == job_statuses[external_job_id] = 0

\* GET /jobs/{external_job_id}
get_job_status(headers) ==
    \E auth_header \in headers, external_job_id \in JobIds :
        LET auth == AuthResponse(auth_header)
        IN  /\ http' =
                 IF auth.code # 0
                 THEN [op |-> "GET", header |-> auth_header, jobId |-> external_job_id,
                       code |-> auth.code, detail |-> auth.detail, body |-> <<>>]
                 ELSE IF JobNotFound(external_job_id)
                 THEN [op |-> "GET", header |-> auth_header, jobId |-> external_job_id,
                       code |-> 404, detail |-> "Job not found", body |-> <<>>]
                 ELSE [op |-> "GET", header |-> auth_header, jobId |-> external_job_id,
                       code |-> 200, detail |-> "", body |-> <<heap[job_statuses[external_job_id]]>>]
            /\ UNCHANGED <<outsideEngine, WORKER_API_KEY, job_statuses, heap, tasks, workspace,
                           output_dir, accepted>>

-----------------------------------------------------------------------------
(* main.py: execute_job, one action per stretch of code between two awaits *)

Payload(status, model, flags, artifacts, errorCode) ==
    [ status |-> status, progressPct |-> IF status = "running" THEN RunningProgressPct ELSE DoneProgressPct,
      model |-> model, qualityFlags |-> flags, artifacts |-> artifacts, errorCode |-> errorCode ]

\* post_callback is called: a POST is attempted, its result is known when the await ends.
Post(task, payload) ==
    [task EXCEPT !.posts = Append(@, payload)]

\* How an awaited post_callback ends: "ok" (any HTTP response) or "raised" (transport
\* error, timeout).
CallbackResults == {"ok", "raised"}

\* Lines 264-274: the except block of execute_job up to the failed callback.
FailedStatus(st, message) ==
    [st EXCEPT !.status = "failed", !.progressPct = DoneProgressPct,
               !.errorCode = error_code(message)]

\* Lines 237-241.
SucceededStatus(st, model_name, artifacts) ==
    [st EXCEPT !.status = "succeeded", !.model = model_name, !.progressPct = DoneProgressPct,
               !.etaSec = 0, !.artifacts = artifacts]

\* An exception raised at `site` reaches `except Exception` of execute_job. The locals
\* model_name and produced_files are not read again: the model forgets them.
Fail(t, task, site, message) ==
    /\ heap' = [heap EXCEPT ![task.status] = FailedStatus(@, message)]
    /\ tasks' = [tasks EXCEPT ![t] =
            Post([task EXCEPT !.pc = "cb_failed",
                              !.model_name = <<>>, !.produced_files = <<>>,
                              !.exc = IF @ = None THEN message ELSE @,
                              !.raised_at = IF @ = "none" THEN site ELSE @],
                 Payload("failed", None, None, None, error_code(message)))]

\* Lines 279-281: finally (shutil.rmtree is taken to succeed).
Finally(t, task) ==
    /\ workspace' = workspace \ {task.job.jobId}
    /\ tasks' = [tasks EXCEPT ![t] =
            [task EXCEPT !.pc = "done", !.model_name = <<>>, !.produced_files = <<>>]]

\* Lines 169-178: the first step of the task, up to the await of the running callback.
Start(t) ==
    LET task == tasks[t]
        ref == job_statuses[task.job.jobId]
    IN  /\ task.pc = "scheduled"
        /\ heap' = [heap EXCEPT ![ref] = [@ EXCEPT !.status = "running",
                                                  !.progressPct = RunningProgressPct]]
        /\ tasks' = [tasks EXCEPT ![t] =
                Post([task EXCEPT !.pc = "cb_running", !.status = ref],
                     Payload("running", None, None, None, None))]
        /\ http' = NoResponse
            /\ UNCHANGED <<outsideEngine, WORKER_API_KEY, job_statuses, workspace, output_dir, accepted>>

\* Lines 179-194: the running callback ended (its exception is swallowed); the workspace
\* and the output directory are re-created, outside any try (a mkdir may raise: a name
\* too long, a file in the way, a full disk); staging is started.
RecreateOutcomes == {"ok", "workspace_mkdir_raises", "output_mkdir_raises"}
Recreate(t) ==
    \E result \in CallbackResults, fs \in RecreateOutcomes :
        LET task == tasks[t]
            j == task.job.jobId
        IN  /\ task.pc = "cb_running"
            /\ workspace' = IF fs = "workspace_mkdir_raises"
                            THEN workspace \ {j} ELSE workspace \cup {j}
            /\ output_dir' = IF fs = "ok" THEN output_dir \cup {j} ELSE output_dir
            /\ tasks' = [tasks EXCEPT ![t] =
                    IF fs = "ok" THEN [task EXCEPT !.pc = "stage"]
                    ELSE [task EXCEPT !.pc = "crashed", !.exc = Message(ShortLen),
                                      !.raised_at = "recreate"]]
            /\ http' = NoResponse
            /\ UNCHANGED <<outsideEngine, WORKER_API_KEY, job_statuses, heap, accepted>>

\* Outcomes of stage_source_audio: it returns, or raises (download error, empty source).
stage_source_audio == {Raised("no", <<>>), Raised("RuntimeError", Message(ShortLen))}

\* Lines 194-222: stage_source_audio ended; on success progressPct = 40 and the tool is
\* started (the sandbox for stem_isolation, run_processing inline otherwise).
Staged(t) ==
    \E outcome \in stage_source_audio :
        LET task == tasks[t]
        IN  /\ task.pc = "stage"
            /\ IF outcome.raises = "no"
               THEN /\ heap' = [heap EXCEPT ![task.status].progressPct = StagedProgressPct]
                    /\ tasks' = [tasks EXCEPT ![t].pc =
                            IF task.job.toolType = "stem_isolation" THEN "sandbox" ELSE "tool"]
               ELSE Fail(t, task, "stage", outcome.message)
            /\ http' = NoResponse
            /\ UNCHANGED <<outsideEngine, WORKER_API_KEY, job_statuses, workspace, output_dir, accepted>>

\* Lines 224-253: the tool returned (model_name, produced_files): the artifacts are listed
\* (which may raise), the record becomes succeeded, and dataset capture is started.
ListingRaises == {FALSE, TRUE}
Produced(t, task, result, listing_raises) ==
    IF listing_raises
    THEN Fail(t, task, "listing", Message(ShortLen))
    ELSE /\ heap' = [heap EXCEPT ![task.status] =
                SucceededStatus(@, result.model, build_artifacts(task.job.jobId, result.files))]
         /\ tasks' = [tasks EXCEPT ![t] =
                IF task.job.captureMode = "implied_use"
                THEN [task EXCEPT !.pc = "capture", !.model_name = result.model,
                                  !.produced_files = result.files,
                                  !.capture_calls = @ + 1]
                ELSE Post([task EXCEPT !.pc = "cb_succeeded", !.model_name = result.model,
                                       !.produced_files = result.files],
                          Payload("succeeded", result.model, quality_flags(result.model),
                                  build_artifacts(task.job.jobId, result.files), None))]

\* Lines 200-214: run_processing_with_hard_timeout ended.
SandboxEnded(t) ==
    \E result \in run_processing_with_hard_timeout(tasks[t].job), listing_raises \in ListingRaises :
        LET task == [tasks[t] EXCEPT !.sandbox = result.raises]
        IN  /\ tasks[t].pc = "sandbox"
            /\ IF result.raises = "no"
               THEN Produced(t, task, result, listing_raises)
               ELSE /\ ~listing_raises
                    /\ IF CaughtByFallback(result.raises)
                       THEN IF params_stems(task.job).raises # "no"
                            THEN Fail(t, task, "tool", Message(ShortLen))
                            ELSE /\ tasks' = [tasks EXCEPT ![t] =
                                        [task EXCEPT !.pc = "fallback", !.fallback_calls = @ + 1]]
                                 /\ UNCHANGED heap
                       ELSE Fail(t, task, "tool", result.message)
            /\ http' = NoResponse
            /\ UNCHANGED <<outsideEngine, WORKER_API_KEY, job_statuses, workspace, output_dir, accepted>>

\* Lines 209-214: build_stem_timeout_fallback ended.
FallbackEnded(t) ==
    \E result \in build_stem_timeout_fallback(params_stems(tasks[t].job).value),
       listing_raises \in ListingRaises :
        LET task == tasks[t]
        IN  /\ task.pc = "fallback"
            /\ IF result.raises = "no"
               THEN Produced(t, task, result, listing_raises)
               ELSE /\ ~listing_raises
                    /\ Fail(t, task, "tool", result.message)
            /\ http' = NoResponse
            /\ UNCHANGED <<outsideEngine, WORKER_API_KEY, job_statuses, workspace, output_dir, accepted>>

\* Lines 216-222: run_processing ended (tools other than stem_isolation).
ToolEnded(t) ==
    \E result \in run_processing(tasks[t].job), listing_raises \in ListingRaises :
        LET task == tasks[t]
        IN  /\ task.pc = "tool"
            /\ IF result.raises = "no"
               THEN Produced(t, task, result, listing_raises)
               ELSE /\ ~listing_raises
                    /\ Fail(t, task, "tool", result.message)
            /\ http' = NoResponse
            /\ UNCHANGED <<outsideEngine, WORKER_API_KEY, job_statuses, workspace, output_dir, accepted>>

\* dataset.py, capture_training_sample: shutil.copy2 of a produced file that does not
\* exist raises; any other step (mkdir, copy, write, append) may raise as well.
capture_training_sample(produced_files) ==
    IF \E i \in 1..Len(produced_files) : ~produced_files[i].exists
    THEN {"raised"}
    ELSE {"ok", "raised"}

\* Lines 243-263: capture_training_sample ended; the succeeded callback is started.
Captured(t) ==
    \E outcome \in capture_training_sample(tasks[t].produced_files) :
        LET task == tasks[t]
        IN  /\ task.pc = "capture"
            /\ IF outcome = "ok"
               THEN /\ tasks' = [tasks EXCEPT ![t] =
                           Post([task EXCEPT !.pc = "cb_succeeded"],
                                Payload("succeeded", task.model_name, quality_flags(task.model_name),
                                        build_artifacts(task.job.jobId, task.produced_files), None))]
                    /\ UNCHANGED heap
               ELSE Fail(t, task, "capture", Message(ShortLen))
            /\ http' = NoResponse
            /\ UNCHANGED <<outsideEngine, WORKER_API_KEY, job_statuses, workspace, output_dir, accepted>>

\* Lines 263-281: the succeeded callback ended: normally (then finally), or with an
\* exception, which `except Exception` of execute_job handles.
SucceededCallbackEnded(t) ==
    \E result \in CallbackResults :
        LET task == tasks[t]
        IN  /\ task.pc = "cb_succeeded"
            /\ IF result = "ok"
               THEN /\ Finally(t, task)
                    /\ UNCHANGED heap
               ELSE /\ Fail(t, task, "cb_succeeded", Message(ShortLen))
                    /\ UNCHANGED workspace
            /\ http' = NoResponse
            /\ UNCHANGED <<outsideEngine, WORKER_API_KEY, job_statuses, output_dir, accepted>>

\* Lines 275-281: the failed callback ended (its exception is swallowed), then finally.
FailedCallbackEnded(t) ==
    \E result \in CallbackResults :
        LET task == tasks[t]
        IN  /\ task.pc = "cb_failed"
            /\ Finally(t, task)
            /\ http' = NoResponse
            /\ UNCHANGED <<outsideEngine, WORKER_API_KEY, job_statuses, heap, output_dir, accepted>>

Tasks == 1..Len(tasks)

\* The steps of the executions.
Execute ==
    \/ \E t \in Tasks : Start(t)
    \/ \E t \in Tasks : Recreate(t)
    \/ \E t \in Tasks : Staged(t)
    \/ \E t \in Tasks : SandboxEnded(t)
    \/ \E t \in Tasks : FallbackEnded(t)
    \/ \E t \in Tasks : ToolEnded(t)
    \/ \E t \in Tasks : Captured(t)
    \/ \E t \in Tasks : SucceededCallbackEnded(t)
    \/ \E t \in Tasks : FailedCallbackEnded(t)

\* The job engine: every valid job body, posted by a client that holds the key.
AuthorizedHeader == <<"Bearer ">> \o ApiKey

InitEngine == Init /\ WORKER_API_KEY = ApiKey

Next ==
    \/ create_job({AuthorizedHeader}, JobRequest)
    \/ Execute

Spec == InitEngine /\ [][Next]_vars

\* The HTTP surface: every header on both routes, with or without a configured key;
\* the jobs are key_bpm jobs (which run inline) with job id "j1", so that "j2" is a job
\* id no POST ever registers.
HttpJobs == {job \in JobRequest : job.toolType = "key_bpm" /\ job.jobId = "j1"}

NextHttp ==
    \/ create_job(Headers, HttpJobs)
    \/ get_job_status(Headers)
    \/ \E t \in Tasks : Start(t)
    \/ \E t \in Tasks : Recreate(t)
    \/ \E t \in Tasks : Staged(t)
    \/ \E t \in Tasks : ToolEnded(t)
    \/ \E t \in Tasks : Captured(t)
    \/ \E t \in Tasks : SucceededCallbackEnded(t)
    \/ \E t \in Tasks : FailedCallbackEnded(t)

SpecHttp == Init /\ [][NextHttp]_vars

-----------------------------------------------------------------------------
(* main.py: the source cache. Every stage_source_audio call runs in a thread of its   *)
(* own (asyncio.to_thread), so the calls interleave at their file system operations.  *)

\* Bounds of the cache model.
MaxStagers == 2      \* stage_source_audio calls in one run
MaxSize == 2         \* size in bytes of the largest source

AUDIO_SUFFIXES ==
    { <<".", x>> : x \in {"wav", "mp3", "flac", "ogg", "aac", "m4a", "aif", "aiff"} }

\* str.lower() on the segments the model uses.
lower(text) ==
    [i \in 1..Len(text) |-> IF text[i] = "MP3" THEN "mp3" ELSE IF text[i] = "WAV" THEN "wav"
                            ELSE text[i]]

\* The source URLs: scheme, netloc, path (stem and suffix of its last component), query.
Url(stem, suffix, query) ==
    [scheme |-> "https", netloc |-> "h", stem |-> stem, suffix |-> suffix, query |-> query]

UrlA == Url(<<"/", "a">>, <<".", "wav">>, <<>>)
UrlASigned == Url(<<"/", "a">>, <<".", "wav">>, <<"sig=2">>)
UrlB == Url(<<"/", "b">>, <<".", "MP3">>, <<>>)
UrlC == Url(<<"/", "c">>, <<>>, <<>>)

SourceUrls == {UrlA, UrlASigned, UrlB, UrlC}

\* source_audio_suffix: the lower-cased suffix of the URL path when it is an audio
\* suffix, ".wav" otherwise.
source_audio_suffix(source_url) ==
    LET suffix == lower(source_url.suffix)
    IN  IF suffix \in AUDIO_SUFFIXES THEN suffix ELSE <<".", "wav">>

\* hashlib.sha256(text).hexdigest(), as an injective function of the text.
sha256(text) == [sha256 |-> text]

\* source_cache_path: the name of the cache entry of a URL; tmp = 0: not a temp file.
source_cache_path(source_url) ==
    [ cache_key |-> sha256(<<source_url.scheme, "://", source_url.netloc>>
                            \o source_url.stem \o source_url.suffix),
      suffix |-> source_audio_suffix(source_url),
      tmp |-> 0 ]

\* temp_path of the stage call s: f"{cached_path.name}.tmp-{pid}-{uuid4}", unique per call.
temp_path(source_url, s) == [source_cache_path(source_url) EXCEPT !.tmp = s]

\* Mutant of is_temp: no name is taken for a temp file's.
is_temp_never(name) == FALSE

\* ".tmp-" in entry.name
is_temp(name) == name.tmp # 0

\* A file of the cache root; complete: it holds the whole body of a download.
CacheFile(name, mtime, size) ==
    [name |-> name, mtime |-> mtime, size |-> size, complete |-> TRUE]

\* The temp file of a download that broke off after `size` bytes.
PartialFile(name, mtime, size) == [CacheFile(name, mtime, size) EXCEPT !.complete = FALSE]

\* Path.exists() and the file at a path of the cache root.
path_exists(name) == \E f \in cache_root : f.name = name
file_at(name) == CHOOSE f \in cache_root : f.name = name

\* The entries prune_source_cache enumerates: the non-temp files.
Entries == {f \in cache_root : ~is_temp(f.name)}

\* files.sort(key=mtime): oldest first (mtimes of distinct entries are distinct).
RECURSIVE sorted_by_mtime(_)
sorted_by_mtime(files) ==
    IF files = {} THEN <<>>
    ELSE LET oldest == CHOOSE f \in files : \A g \in files : f.mtime <= g.mtime
         IN  <<oldest>> \o sorted_by_mtime(files \ {oldest})

RECURSIVE total_size(_)
total_size(files) ==
    IF files = <<>> THEN 0 ELSE Head(files).size + total_size(Tail(files))

\* A stage_source_audio(source_url, target_path) call.
\*   hit: the call found the cache entry (exists, size > 0)
\*   files, count, total_bytes: the locals of prune_source_cache
\*   enumerated, removed, failed: what its prune enumerated, unlinked, failed to unlink
\*   target: target_path exists;  downloads: download_source_audio calls it made
\*   raised: the exception that left the call ("no": none)
NewStager(source_url) ==
    [ source_url |-> source_url, pc |-> "exists", hit |-> FALSE,
      files |-> <<>>, count |-> 0, total_bytes |-> 0,
      enumerated |-> <<>>, removed |-> {}, failed |-> {},
      target |-> FALSE, downloads |-> 0, raised |-> "no" ]

Stagers == 1..Len(stagers)

\* The call ends, by a return (the target exists) or by an exception; the locals of its
\* prune are gone.
Ended_call(st, raised) ==
    [st EXCEPT !.pc = IF raised = "no" THEN "returned" ELSE "raised",
               !.target = (raised = "no"), !.raised = raised,
               !.files = <<>>, !.count = 0, !.total_bytes = 0,
               !.enumerated = <<>>, !.removed = {}, !.failed = {}]

\* The caches a worker process may find at start: what earlier runs left in
\* SOURCE_CACHE_ROOT (entry of UrlA older than the entry of UrlB).
StartCaches ==
    { {},
      {CacheFile(source_cache_path(UrlA), 1, 1)},
      {CacheFile(source_cache_path(UrlA), 1, 1), CacheFile(source_cache_path(UrlB), 2, 1)} }

InitCache ==
    /\ SOURCE_CACHE_MAX_BYTES \in 0..MaxSize
    /\ SOURCE_CACHE_MAX_FILES \in 0..2
    /\ cache_root \in StartCaches
    /\ SOURCE_CACHE_PRUNE_LOCK = 0
    /\ stagers = <<>>
    /\ clock = 2

\* stage_source_audio is called (execute_job, line 194).
StageCall ==
    \E source_url \in SourceUrls :
        /\ Len(stagers) < MaxStagers
        /\ stagers' = Append(stagers, NewStager(source_url))
        /\ UNCHANGED <<outsideCache, SOURCE_CACHE_MAX_BYTES, SOURCE_CACHE_MAX_FILES,
                       cache_root, SOURCE_CACHE_PRUNE_LOCK, clock>>

\* Line 99, cached_path.exists(): a missing entry leads to the download (the temp path
\* is new, so lines 104-105 do nothing).
StageExists(s) ==
    LET st == stagers[s]
    IN  /\ st.pc = "exists"
        /\ stagers' = [stagers EXCEPT ![s].pc =
                IF path_exists(source_cache_path(st.source_url)) THEN "stat" ELSE "download"]
        /\ UNCHANGED <<outsideCache, SOURCE_CACHE_MAX_BYTES, SOURCE_CACHE_MAX_FILES,
                       cache_root, SOURCE_CACHE_PRUNE_LOCK, clock>>

\* Mutant of is_warm: the size test never passes, so a cached source is downloaded again.
is_warm_never(file) == FALSE

\* cached_path.stat().st_size > 0
is_warm(file) == file.size > 0

\* Line 99, cached_path.stat().st_size > 0: stat raises FileNotFoundError when the entry
\* is gone by now.
StageStat(s) ==
    LET st == stagers[s]
        cached_path == source_cache_path(st.source_url)
    IN  /\ st.pc = "stat"
        /\ stagers' = [stagers EXCEPT ![s] =
                IF ~path_exists(cached_path)
                THEN [st EXCEPT !.pc = "raised", !.raised = "FileNotFoundError"]
                ELSE IF is_warm(file_at(cached_path))
                THEN [st EXCEPT !.pc = "link", !.hit = TRUE]
                ELSE [st EXCEPT !.pc = "download"]]
        /\ UNCHANGED <<outsideCache, SOURCE_CACHE_MAX_BYTES, SOURCE_CACHE_MAX_FILES,
                       cache_root, SOURCE_CACHE_PRUNE_LOCK, clock>>

\* The outcomes of download_source_audio: the size of the body written to the temp file
\* (0: an empty body), or -1 when the GET raised or the status was not 2xx, before the
\* temp file was opened.
DownloadOutcomes == -1..MaxSize

\* temp_path.stat().st_size <= 0
is_empty(size) == size <= 0

\* Lines 107-110: the download to the temp file; an empty temp file is unlinked and
\* RuntimeError raised. A body that breaks off (iter_content raises) leaves the temp
\* file with the bytes written before, one less than the body here.
StageDownload(s) ==
    \E size \in DownloadOutcomes, broken \in BOOLEAN :
        LET st == stagers[s]
            temp == temp_path(st.source_url, s)
        IN  /\ st.pc = "download"
            /\ broken => size > 0
            /\ IF broken
               THEN /\ cache_root' = cache_root \cup {PartialFile(temp, clock + 1, size - 1)}
                    /\ stagers' = [stagers EXCEPT ![s] =
                           [st EXCEPT !.pc = "raised", !.downloads = @ + 1,
                                      !.raised = "ChunkedEncodingError"]]
               ELSE IF size >= 0 /\ ~is_empty(size)
               THEN /\ cache_root' = cache_root \cup {CacheFile(temp, clock + 1, size)}
                    /\ stagers' = [stagers EXCEPT ![s] =
                           [st EXCEPT !.pc = "replace", !.downloads = @ + 1]]
               ELSE /\ cache_root' = cache_root
                    /\ stagers' = [stagers EXCEPT ![s] =
                           [st EXCEPT !.pc = "raised", !.downloads = @ + 1,
                                      !.raised = IF size = 0 THEN "RuntimeError" ELSE "HTTPError"]]
            /\ clock' = IF size > 0 THEN clock + 1 ELSE clock
            /\ UNCHANGED <<outsideCache, SOURCE_CACHE_MAX_BYTES, SOURCE_CACHE_MAX_FILES,
                           SOURCE_CACHE_PRUNE_LOCK>>

\* Line 112, os.replace(temp_path, cached_path): the temp file takes the entry's name
\* (and keeps its mtime), replacing the entry if there is one.
StageReplace(s) ==
    LET st == stagers[s]
        cached_path == source_cache_path(st.source_url)
        temp == file_at(temp_path(st.source_url, s))
    IN  /\ st.pc = "replace"
        /\ cache_root' = {f \in cache_root : f.name \notin {temp.name, cached_path}}
                            \cup {[temp EXCEPT !.name = cached_path]}
        /\ stagers' = [stagers EXCEPT ![s].pc = "prune"]
        /\ UNCHANGED <<outsideCache, SOURCE_CACHE_MAX_BYTES, SOURCE_CACHE_MAX_FILES,
                       SOURCE_CACHE_PRUNE_LOCK, clock>>

\* Lines 118-138: prune_source_cache returns at once when both limits are off;
\* otherwise it takes the lock and enumerates the non-temp files, oldest first.
PruneEnter(s) ==
    LET st == stagers[s]
        files == sorted_by_mtime(Entries)
    IN  /\ st.pc = "prune"
        /\ IF SOURCE_CACHE_MAX_BYTES <= 0 /\ SOURCE_CACHE_MAX_FILES <= 0
           THEN /\ stagers' = [stagers EXCEPT ![s].pc = "link"]
                /\ UNCHANGED SOURCE_CACHE_PRUNE_LOCK
           ELSE /\ SOURCE_CACHE_PRUNE_LOCK = 0
                /\ SOURCE_CACHE_PRUNE_LOCK' = s
                /\ stagers' = [stagers EXCEPT ![s] =
                       [st EXCEPT !.pc = "evict", !.files = files, !.enumerated = files,
                                  !.count = Len(files), !.total_bytes = total_size(files)]]
        /\ UNCHANGED <<outsideCache, SOURCE_CACHE_MAX_BYTES, SOURCE_CACHE_MAX_FILES,
                       cache_root, clock>>

\* Mutant of over_limit: the byte limit is forgotten.
over_limit_files_only(count, total_bytes) ==
    SOURCE_CACHE_MAX_FILES > 0 /\ count > SOURCE_CACHE_MAX_FILES

\* Lines 141-142: the condition of the eviction loop.
over_limit(count, total_bytes) ==
    \/ (SOURCE_CACHE_MAX_FILES > 0 /\ count > SOURCE_CACHE_MAX_FILES)
    \/ (SOURCE_CACHE_MAX_BYTES > 0 /\ total_bytes > SOURCE_CACHE_MAX_BYTES)

\* path.unlink(missing_ok=True): it unlinks whatever is at the path now; a missing file
\* is no error; any other OSError (the file exists) is skipped by the loop.
UnlinkOutcomes(name) == IF path_exists(name) THEN {"ok", "OSError"} ELSE {"ok"}

\* Mutant of next_victim: the youngest file is evicted first.
next_victim_youngest(files) == Len(files)

\* files.pop(0): the index of the file the loop takes next.
next_victim(files) == 1

\* Lines 140-150: one round of the eviction loop, or its end (the lock is released).
PruneEvict(s) ==
    LET st == stagers[s]
    IN  /\ st.pc = "evict"
        /\ IF st.files # <<>> /\ over_limit(st.count, st.total_bytes)
           THEN LET i == next_victim(st.files)
                    victim == st.files[i]
                    rest == SubSeq(st.files, 1, i - 1) \o SubSeq(st.files, i + 1, Len(st.files))
                IN  \E outcome \in UnlinkOutcomes(victim.name) :
                        /\ IF outcome = "ok"
                           THEN /\ cache_root' = {f \in cache_root : f.name # victim.name}
                                /\ stagers' = [stagers EXCEPT ![s] =
                                       [st EXCEPT !.files = rest, !.count = @ - 1,
                                                  !.total_bytes = @ - victim.size,
                                                  !.removed = @ \cup {victim}]]
                           ELSE /\ cache_root' = cache_root
                                /\ stagers' = [stagers EXCEPT ![s] =
                                       [st EXCEPT !.files = rest,
                                                  !.failed = @ \cup {victim}]]
                        /\ UNCHANGED SOURCE_CACHE_PRUNE_LOCK
           ELSE /\ SOURCE_CACHE_PRUNE_LOCK' = 0
                /\ stagers' = [stagers EXCEPT ![s].pc = "link"]
                /\ UNCHANGED cache_root
        /\ UNCHANGED <<outsideCache, SOURCE_CACHE_MAX_BYTES, SOURCE_CACHE_MAX_FILES, clock>>

\* os.link(source, target): OSError when the source is gone, and on a file system that
\* cannot link (cross-device).
LinkOutcomes(source) == IF path_exists(source) THEN {"ok", "OSError"} ELSE {"OSError"}

\* Lines 86-92, link_or_copy: the target (in the job's workspace) is linked to the entry.
StageLink(s) ==
    \E outcome \in LinkOutcomes(source_cache_path(stagers[s].source_url)) :
        LET st == stagers[s]
        IN  /\ st.pc = "link"
            /\ stagers' = [stagers EXCEPT ![s] =
                    IF outcome = "ok" THEN Ended_call(st, "no")
                    ELSE [st EXCEPT !.pc = "copy"]]
            /\ UNCHANGED <<outsideCache, SOURCE_CACHE_MAX_BYTES, SOURCE_CACHE_MAX_FILES,
                           cache_root, SOURCE_CACHE_PRUNE_LOCK, clock>>

\* Lines 93-94, shutil.copy2(source, target) after os.link failed: FileNotFoundError when
\* the entry is gone.
StageCopy(s) ==
    LET st == stagers[s]
    IN  /\ st.pc = "copy"
        /\ stagers' = [stagers EXCEPT ![s] =
                IF path_exists(source_cache_path(st.source_url))
                THEN Ended_call(st, "no")
                ELSE Ended_call(st, "FileNotFoundError")]
        /\ UNCHANGED <<outsideCache, SOURCE_CACHE_MAX_BYTES, SOURCE_CACHE_MAX_FILES,
                       cache_root, SOURCE_CACHE_PRUNE_LOCK, clock>>

NextCache ==
    \/ StageCall
    \/ \E s \in Stagers : StageExists(s)
    \/ \E s \in Stagers : StageStat(s)
    \/ \E s \in Stagers : StageDownload(s)
    \/ \E s \in Stagers : StageReplace(s)
    \/ \E s \in Stagers : PruneEnter(s)
    \/ \E s \in Stagers : PruneEvict(s)
    \/ \E s \in Stagers : StageLink(s)
    \/ \E s \in Stagers : StageCopy(s)

\* The source cache alone: the engine stays as it is before its first request.
InitSourceCache ==
    /\ WORKER_API_KEY = ApiKey /\ InitEngineVars /\ InitCache /\ IdleTools /\ IdleLedger

SpecCache == InitSourceCache /\ [][NextCache]_vars

-----------------------------------------------------------------------------
(* processing.py: stem isolation (process_stem_isolation, canonicalize_stem_outputs,   *)
(* build_stem_timeout_fallback) as functions of what the separator left on disk.       *)

MaxSeparated == 4     \* files one separator run returns

STEM_ORDER_4 == <<"vocals", "drums", "bass", "other">>
STEM_ORDER_2 == <<"vocals", "accompaniment">>

STEM_KEYWORDS ==
    [ vocals |-> {"vocals", "vocal", "vox", "voice", "lead"},
      drums |-> {"drums", "drum", "percussion", "beat", "kick", "snare"},
      bass |-> {"bass", "low", "sub"},
      other |-> {"other", "music", "instrumental", "inst", "accompaniment"},
      accompaniment |-> {"accompaniment", "instrumental", "inst", "music", "other",
                         "minus_vocals", "no_vocals"} ]

\* path.stem.lower(), segment by segment.
lower_segment(segment) ==
    CASE segment = "Vocals" -> "vocals"
      [] segment = "Instrumental" -> "instrumental"
      [] segment = "Drums" -> "drums"
      [] segment = "Bass" -> "bass"
      [] segment = "Other" -> "other"
      [] segment = "UVR-MDX-NET-Inst_HQ_5" -> "uvr-mdx-net-inst_hq_5"
      [] OTHER -> segment

\* The keywords of STEM_KEYWORDS that are substrings of a lower-cased segment.
keywords_in(segment) ==
    CASE segment \in {"vocals", "-vocals"} -> {"vocals", "vocal"}
      [] segment \in {"drums", "-drums"} -> {"drums", "drum"}
      [] segment \in {"bass", "-bass"} -> {"bass"}
      [] segment \in {"other", "-other"} -> {"other"}
      [] segment = "-accompaniment" -> {"accompaniment"}
      [] segment = "instrumental" -> {"instrumental", "inst"}
      [] segment = "uvr-mdx-net-inst_hq_5" -> {"inst"}
      [] OTHER -> {}

\* A path of the output directory: the stem and the suffix of its name.
OutputPath(stem, suffix) == [stem |-> stem, suffix |-> suffix]

\* any(keyword in haystack for keyword in lowered)
matches(path, keywords) ==
    \E i \in 1..Len(path.stem) : keywords_in(lower_segment(path.stem[i])) \cap keywords # {}

\* first_matching_path: the index in paths of the first match, 0 for None.
first_matching_path(paths, keywords) ==
    IF \E i \in 1..Len(paths) : matches(paths[i], keywords)
    THEN CHOOSE i \in 1..Len(paths) :
            /\ matches(paths[i], keywords)
            /\ \A j \in 1..(i - 1) : ~matches(paths[j], keywords)
    ELSE 0

\* list.remove of the element at index i.
remove_at(paths, i) == SubSeq(paths, 1, i - 1) \o SubSeq(paths, i + 1, Len(paths))

\* output_dir / f"{input_file.stem}-{stem_name}.wav"
stem_target(stem_name) ==
    OutputPath(<<"input", CASE stem_name = "vocals" -> "-vocals"
                            [] stem_name = "drums" -> "-drums"
                            [] stem_name = "bass" -> "-bass"
                            [] stem_name = "other" -> "-other"
                            [] stem_name = "accompaniment" -> "-accompaniment">>, Wav)

\* output_dir / f"{input_file.stem}-stems.zip"
zip_path == OutputPath(<<"input", "-stems">>, <<".", "zip">>)

\* Mutant of map_stems: the path a stem took stays in `remaining`.
RECURSIVE map_stems_keeps_taken(_, _, _)
map_stems_keeps_taken(order, remaining, mapped) ==
    IF order = <<>> THEN mapped
    ELSE LET stem_name == Head(order)
             i == first_matching_path(remaining, STEM_KEYWORDS[stem_name])
         IN  IF i = 0 THEN map_stems_keeps_taken(Tail(order), remaining, mapped)
             ELSE map_stems_keeps_taken(Tail(order), remaining,
                                        mapped @@ (stem_name :> remaining[i]))

\* Lines 275-280: the loop that maps each stem of `order` to the first remaining path
\* that matches its keywords.
RECURSIVE map_stems(_, _, _)
map_stems(order, remaining, mapped) ==
    IF order = <<>> THEN mapped
    ELSE LET stem_name == Head(order)
             i == first_matching_path(remaining, STEM_KEYWORDS[stem_name])
         IN  IF i = 0 THEN map_stems(Tail(order), remaining, mapped)
             ELSE map_stems(Tail(order), remove_at(remaining, i),
                            mapped @@ (stem_name :> remaining[i]))

\* [target for stem_name in order]
targets_of(order) == [i \in 1..Len(order) |-> stem_target(order[i])]

\* What canonicalize_stem_outputs ends with: the exception and its text or the list
\* returned, the disk, and for four stems the mapping of the loop of lines 275-280 and
\* whether synthesize_four_stems_from_accompaniment was called.
\* vocals_source, accompaniment_source: the files read as the vocals and as the
\* accompaniment (NoPath: none was).
NoPath == OutputPath(<<>>, <<>>)

StemResult(raises, files, disk) ==
    [raises |-> raises, files |-> files, disk |-> disk, message |-> <<>>,
     mapped |-> <<>>, synthesis |-> FALSE,
     vocals_source |-> NoPath, accompaniment_source |-> NoPath]

StemRaises(message, disk) == [StemResult("RuntimeError", <<>>, disk) EXCEPT !.message = message]

\* An exception of soundfile, reading or writing audio.
AudioError == <<"LibsndfileError">>

\* Mutant of wants_four_stems: four stems only above four.
wants_four_stems_above(stems) == stems > 4

\* stems >= 4
wants_four_stems(stems) == stems >= 4

\* The paths of a list that exist on disk, in order (the two `if file.exists()` loops
\* that fill the zip, and `existing`).
existing_of(paths, disk) == SelectSeq(paths, LAMBDA p : p \in disk)

range(paths) == {paths[i] : i \in 1..Len(paths)}

\* canonicalize_stem_outputs(input_file, output_dir, produced, stems), on a disk that
\* holds the paths `disk`; audio_ok: the audio of the files can be read, is not empty
\* and can be written. The result: the exception or the list returned, and the disk.
canonicalize_stem_outputs(produced, stems, disk, audio_ok) ==
    LET existing == existing_of(produced, disk)
    IN  IF existing = <<>> THEN StemRaises(<<"Stem isolation produced no files">>, disk)
        ELSE IF wants_four_stems(stems)
        THEN LET mapped == map_stems(STEM_ORDER_4, existing, <<>>)
                 missing == SelectSeq(STEM_ORDER_4, LAMBDA stem_name : stem_name \notin DOMAIN mapped)
                 vocals_found ==
                     \/ "vocals" \in DOMAIN mapped
                     \/ first_matching_path(existing, STEM_KEYWORDS["vocals"]) # 0
                 accompaniment_source ==
                     first_matching_path(existing, STEM_KEYWORDS["accompaniment"])
                 synthesis == missing # <<>> /\ vocals_found /\ accompaniment_source # 0
                 targets == targets_of(STEM_ORDER_4)
                 ends ==
                     IF missing # <<>> /\ ~synthesis
                     THEN StemRaises(<<"Stem isolation missing required stems: ">> \o missing,
                                     disk)
                     ELSE IF ~audio_ok THEN StemRaises(AudioError, disk)
                     ELSE StemResult("no", targets, disk \cup range(targets))
             IN  [ends EXCEPT !.mapped = mapped, !.synthesis = synthesis,
                              !.vocals_source =
                                  IF ~synthesis THEN NoPath
                                  ELSE IF "vocals" \in DOMAIN mapped THEN mapped["vocals"]
                                  ELSE existing[first_matching_path(existing,
                                                                    STEM_KEYWORDS["vocals"])],
                              !.accompaniment_source =
                                  IF ~synthesis THEN NoPath
                                  ELSE existing[accompaniment_source]]
        ELSE LET vocals_source == first_matching_path(existing, STEM_KEYWORDS["vocals"])
                 remaining == SelectSeq(existing, LAMBDA p : p # existing[vocals_source])
                 accompaniment_source ==
                     first_matching_path(remaining, STEM_KEYWORDS["accompaniment"])
                 vocals_target == stem_target("vocals")
                 accompaniment_target == stem_target("accompaniment")
                 ends ==
                     IF ~audio_ok THEN StemRaises(AudioError, disk)
                     ELSE IF accompaniment_source = 0 /\ remaining = <<>>
                     THEN StemRaises(<<"2-stem isolation failed to build accompaniment output">>,
                                     disk \cup {vocals_target})
                     ELSE StemResult("no", <<vocals_target, accompaniment_target>>,
                                     disk \cup {vocals_target, accompaniment_target})
             IN  IF vocals_source = 0
                 THEN StemRaises(<<"2-stem isolation failed to identify vocals output">>, disk)
                 ELSE [ends EXCEPT !.vocals_source = existing[vocals_source],
                                   !.accompaniment_source =
                                       IF accompaniment_source = 0 THEN NoPath
                                       ELSE remaining[accompaniment_source]]

\* process_stem_isolation once the separator returned output_files for the first model
\* that loads (none: every candidate failed): the exception or the model and the files
\* returned, and the members of the zip.
process_stem_isolation(output_files, stems, disk, audio_ok) ==
    IF output_files = <<>>
    THEN [raises |-> "RuntimeError", model |-> <<>>, files |-> <<>>, zip |-> <<>>,
          message |-> <<"Stem isolation model load/separation failed">>,
          mapped |-> <<>>, synthesis |-> FALSE,
          vocals_source |-> NoPath, accompaniment_source |-> NoPath]
    ELSE LET r == canonicalize_stem_outputs(output_files, stems, disk, audio_ok)
         IN  IF r.raises # "no"
             THEN [raises |-> r.raises, model |-> <<>>, files |-> <<>>, zip |-> <<>>,
                   message |-> r.message, mapped |-> r.mapped, synthesis |-> r.synthesis,
                   vocals_source |-> r.vocals_source,
                   accompaniment_source |-> r.accompaniment_source]
             ELSE [ raises |-> "no", model |-> <<"UVR-MDX-NET-Inst_HQ_5.onnx">>,
                    files |-> r.files \o <<zip_path>>,
                    zip |-> existing_of(r.files, r.disk),
                    message |-> <<>>, mapped |-> r.mapped, synthesis |-> r.synthesis,
                    vocals_source |-> r.vocals_source,
                    accompaniment_source |-> r.accompaniment_source ]

\* The names audio-separator gives its outputs, and a file that already has a target's name.
Separated(what, model) == OutputPath(<<"input", "_(", what, ")_", model>>, Wav)

SeparatedPaths ==
    { Separated("Vocals", "UVR-MDX-NET-Inst_HQ_5"),
      Separated("Instrumental", "UVR-MDX-NET-Inst_HQ_5"),
      Separated("Drums", "htdemucs"),
      Separated("Bass", "htdemucs"),
      Separated("Other", "htdemucs"),
      OutputPath(<<"input", "-vocals">>, Wav) }

\* The lists a separator run can return: up to MaxSeparated distinct paths.
SeparatorOutputs ==
    { files \in UNION {[1..n -> SeparatedPaths] : n \in 0..MaxSeparated} :
        \A i, j \in 1..Len(files) : i # j => files[i] # files[j] }

\* int(params.get("stems", 4))
StemCounts == {2, 3, 4, 5}

\* The stem isolation calls: process_stem_isolation (by run_processing, in the sandbox
\* child) with what the separator returned, where the first file of the list may be
\* missing from the disk and a file of an earlier run of the job may still be in the
\* output directory; and build_stem_timeout_fallback (by execute_job, after the sandbox
\* timed out).
StemCalls ==
    { [ pc |-> "called", route |-> "separator", stems |-> stems, output_files |-> output_files,
        first_missing |-> first_missing, stale |-> stale, audio_ok |-> audio_ok ] :
          output_files \in SeparatorOutputs, stems \in StemCounts,
          first_missing \in BOOLEAN, stale \in {{}, {stem_target("drums")}},
          audio_ok \in BOOLEAN }
    \cup
    { [ pc |-> "called", route |-> "fallback", stems |-> stems, output_files |-> <<>>,
        first_missing |-> FALSE, stale |-> {}, audio_ok |-> TRUE ] : stems \in StemCounts }

\* process_stem_isolation runs to its end.
ProcessStemIsolation ==
    LET c == stem_call
        disk == c.stale \cup
                {c.output_files[i] : i \in (IF c.first_missing THEN 2 ELSE 1)..Len(c.output_files)}
        r == process_stem_isolation(c.output_files, c.stems, disk, c.audio_ok)
    IN  /\ c.pc = "called" /\ c.route = "separator"
        /\ stem_call' = [ pc |-> "ended", route |-> c.route, stems |-> c.stems,
                          output_files |-> c.output_files, disk |-> disk,
                          raises |-> r.raises, message |-> r.message,
                          mapped |-> r.mapped, synthesis |-> r.synthesis,
                          vocals_source |-> r.vocals_source,
                          accompaniment_source |-> r.accompaniment_source,
                          model |-> r.model, files |-> r.files, zip |-> r.zip ]
        /\ UNCHANGED <<outsideTools, mastering_call, callback_call, training_call, sandbox_run>>

\* build_stem_timeout_fallback runs to its end: the stems it wrote exist when the zip is
\* filled.
BuildStemTimeoutFallback ==
    \E r \in build_stem_timeout_fallback(stem_call.stems) :
        LET c == stem_call
            files == [i \in 1..Len(r.files) |-> OutputPath(r.files[i].stem, r.files[i].suffix)]
            outputs == SubSeq(files, 1, Len(files) - 1)
        IN  /\ c.pc = "called" /\ c.route = "fallback"
            /\ stem_call' = [ pc |-> "ended", route |-> c.route, stems |-> c.stems,
                              output_files |-> <<>>, disk |-> {}, raises |-> r.raises,
                              message |-> <<>>, mapped |-> <<>>, synthesis |-> FALSE,
                              vocals_source |-> NoPath, accompaniment_source |-> NoPath,
                              model |-> r.model, files |-> files,
                              zip |-> existing_of(outputs, range(outputs)) ]
            /\ UNCHANGED <<outsideTools, mastering_call, callback_call, training_call, sandbox_run>>

NextStems ==
    \/ ProcessStemIsolation
    \/ BuildStemTimeoutFallback

\* Stem isolation alone: the engine and the cache are idle.
InitStems ==
    /\ WORKER_API_KEY = ApiKey /\ InitEngineVars /\ IdleCache /\ IdleLedger
    /\ stem_call \in StemCalls /\ mastering_call = NoCall /\ callback_call = NoCall
    /\ training_call = NoCall /\ sandbox_run = NoCall

SpecStems == InitStems /\ [][NextStems]_vars

-----------------------------------------------------------------------------
(* processing.py: mastering (process_mastering, mastered_audio_is_distinct) as a       *)
(* function of what each engine does to <output_dir>/input-mastered.wav.               *)

\* What a mastered file is, compared with the source: whether the file sizes, the sample
\* rates and the shapes differ, whether both buffers are empty, whether
\* mean(|out - in|) >= 1e-5, whether mean(|out - in|) / max(mean(|in|), 1e-8) >= 5e-4,
\* and whether the file can be read as audio.
Audio(size_differs, rate_differs, shape_differs, empty, delta, relative, readable) ==
    [ size_differs |-> size_differs, rate_differs |-> rate_differs,
      shape_differs |-> shape_differs, empty |-> empty,
      delta |-> delta, relative |-> relative, readable |-> readable ]

Passthrough == Audio(FALSE, FALSE, FALSE, FALSE, FALSE, FALSE, TRUE)

AudioKinds ==
    { Passthrough,
      Audio(TRUE, FALSE, FALSE, FALSE, FALSE, FALSE, TRUE),    \* another file size
      Audio(TRUE, FALSE, FALSE, FALSE, FALSE, FALSE, FALSE),   \* another size, not audio
      Audio(FALSE, TRUE, FALSE, FALSE, TRUE, TRUE, TRUE),      \* another sample rate
      Audio(FALSE, FALSE, TRUE, FALSE, FALSE, FALSE, TRUE),    \* another shape
      Audio(FALSE, FALSE, FALSE, TRUE, FALSE, FALSE, TRUE),    \* both buffers empty
      Audio(FALSE, FALSE, FALSE, FALSE, TRUE, TRUE, TRUE),     \* audibly changed
      Audio(FALSE, FALSE, FALSE, FALSE, FALSE, TRUE, TRUE),    \* a quiet source, changed
      Audio(FALSE, FALSE, FALSE, FALSE, FALSE, FALSE, FALSE) } \* same size, not audio

\* The mastered path holds no file.
Missing == [missing |-> TRUE]

\* Mutant of mastered_audio_is_distinct: the earlier passthrough variant, which accepts
\* any output.
mastered_audio_is_distinct_passthrough(candidate) == [raises |-> "no", value |-> TRUE]

\* mastered_audio_is_distinct(source, candidate), both files existing: its value, or the
\* exception of read_audio_2d.
mastered_audio_is_distinct(candidate) ==
    IF candidate.size_differs THEN [raises |-> "no", value |-> TRUE]
    ELSE IF ~candidate.readable THEN [raises |-> "LibsndfileError", value |-> FALSE]
    ELSE IF candidate.rate_differs THEN [raises |-> "no", value |-> TRUE]
    ELSE IF candidate.shape_differs THEN [raises |-> "no", value |-> TRUE]
    ELSE IF candidate.empty THEN [raises |-> "no", value |-> FALSE]
    ELSE [raises |-> "no", value |-> (candidate.delta \/ candidate.relative)]

MasteringEngines == {"sonicmaster", "matchering_2_0", "adaptive_dsp_mastering"}

\* os.getenv("MASTERING_ENGINE", "matchering_2_0").strip().lower() on the values the
\* variable is given.
requested_engine_of(value) ==
    CASE value = Unset -> "matchering_2_0"
      [] value = " SonicMaster " -> "sonicmaster"
      [] OTHER -> value

\* A run of `len` characters of text; a text is a sequence of runs.
Piece(text, len) == [text |-> text, len |-> len]

\* len(text)
RECURSIVE text_len(_)
text_len(text) == IF text = <<>> THEN 0 ELSE Head(text).len + text_len(Tail(text))

\* text[:n]
RECURSIVE cut(_, _)
cut(text, n) ==
    IF text = <<>> \/ n <= 0 THEN <<>>
    ELSE IF Head(text).len <= n THEN <<Head(text)>> \o cut(Tail(text), n - Head(text).len)
    ELSE <<Piece(Head(text).text, n)>>

\* "; ".join(errors)
RECURSIVE join(_)
join(errors) ==
    IF errors = <<>> THEN <<>>
    ELSE IF Len(errors) = 1 THEN errors[1]
    ELSE errors[1] \o <<Piece("; ", 2)>> \o join(Tail(errors))

\* The name of an engine as text.
engine_text(engine) ==
    Piece(engine, CASE engine = "sonicmaster" -> 11
                    [] engine = "matchering_2_0" -> 14
                    [] engine = "adaptive_dsp_mastering" -> 22
                    [] OTHER -> 7)

SummaryLen == 1200   \* summary[:1200]
MaxStderr == 1300    \* length of the longest text an engine raises with

\* Lines 376-377: the engines in the order they are tried.
candidate_engines(requested_engine) ==
    ( IF requested_engine = "sonicmaster" THEN <<"sonicmaster", "matchering_2_0">>
      ELSE <<"matchering_2_0", "sonicmaster">> ) \o <<"adaptive_dsp_mastering">>

\* What one engine call does: it raises (leaving the mastered path as it was), or it
\* returns (model_name, [mastered_path, report_path]) after writing the mastered file;
\* SonicMaster, an external script, may also exit 0 without writing it.
EngineOutcome(raises, writes) == [raises |-> raises, writes |-> writes, error |-> <<>>]

\* The engine raises with str(exc) of the given length.
EngineRaises(len) ==
    [raises |-> "RuntimeError", writes |-> Missing, error |-> <<Piece("engine error", len)>>]

EngineOutcomes(engine) ==
    { EngineRaises(len) : len \in {ShortLen, MaxStderr} }
    \cup { EngineOutcome("no", audio) : audio \in AudioKinds }
    \cup ( IF engine = "sonicmaster" THEN { EngineOutcome("no", Missing) } ELSE {} )

\* The files every engine returns.
mastering_files ==
    << OutputPath(<<"input", "-mastered">>, Wav), OutputPath(<<"mastering-report">>, Json) >>

\* Mutant of try_engines_from: the summary holds the error of the last engine only.
RECURSIVE try_engines_last_error(_, _, _, _, _)
try_engines_last_error(engines, outcomes, disk, errors, requested_engine) ==
    IF engines = <<>>
    THEN [raises |-> "RuntimeError", model |-> <<>>, files |-> <<>>, disk |-> disk,
          message |-> <<Piece("Mastering failed across all engines (", 37),
                        engine_text(requested_engine), Piece("): ", 3)>>
                      \o cut(join(SubSeq(errors, Len(errors), Len(errors))), SummaryLen)]
    ELSE LET engine == Head(engines)
             outcome == outcomes[engine]
             written == IF outcome.raises = "no" /\ outcome.writes # Missing
                        THEN outcome.writes ELSE disk
             audio_outputs ==
                 SelectSeq(mastering_files, LAMBDA path : lower(path.suffix) \in AUDIO_SUFFIXES)
             exc ==
                 IF outcome.raises # "no" THEN outcome.error
                 ELSE IF audio_outputs = <<>>
                 THEN <<Piece("Mastering engine returned no audio artifact", 43)>>
                 ELSE IF written = Missing
                 THEN <<Piece("Mastering output file is missing", 32)>>
                 ELSE IF mastered_audio_is_distinct(written).raises # "no"
                 THEN <<Piece("Error opening the file: Format not recognised.", 46)>>
                 ELSE IF ~mastered_audio_is_distinct(written).value
                 THEN <<Piece("Mastering output is effectively unchanged from source audio", 59)>>
                 ELSE <<>>
         IN  IF exc # <<>>
             THEN try_engines_last_error(Tail(engines), outcomes, written,
                      Append(errors, <<engine_text(engine), Piece(": ", 2)>> \o exc),
                      requested_engine)
             ELSE [raises |-> "no", model |-> <<engine>>, files |-> mastering_files,
                   disk |-> written, message |-> <<>>]

\* Lines 379-405: the loop over the engines and what follows it; `disk` is what the
\* mastered path holds, `errors` the list of the errors so far.
RECURSIVE try_engines_from(_, _, _, _, _)
try_engines_from(engines, outcomes, disk, errors, requested_engine) ==
    IF engines = <<>>
    THEN [raises |-> "RuntimeError", model |-> <<>>, files |-> <<>>, disk |-> disk,
          message |-> <<Piece("Mastering failed across all engines (", 37),
                        engine_text(requested_engine), Piece("): ", 3)>>
                      \o cut(join(errors), SummaryLen)]
    ELSE LET engine == Head(engines)
             outcome == outcomes[engine]
             written == IF outcome.raises = "no" /\ outcome.writes # Missing
                        THEN outcome.writes ELSE disk
             audio_outputs ==
                 SelectSeq(mastering_files, LAMBDA path : lower(path.suffix) \in AUDIO_SUFFIXES)
             exc ==
                 IF outcome.raises # "no" THEN outcome.error
                 ELSE IF audio_outputs = <<>>
                 THEN <<Piece("Mastering engine returned no audio artifact", 43)>>
                 ELSE IF written = Missing
                 THEN <<Piece("Mastering output file is missing", 32)>>
                 ELSE IF mastered_audio_is_distinct(written).raises # "no"
                 THEN <<Piece("Error opening the file: Format not recognised.", 46)>>
                 ELSE IF ~mastered_audio_is_distinct(written).value
                 THEN <<Piece("Mastering output is effectively unchanged from source audio", 59)>>
                 ELSE <<>>
         IN  IF exc # <<>>
             THEN try_engines_from(Tail(engines), outcomes, written,
                      Append(errors, <<engine_text(engine), Piece(": ", 2)>> \o exc),
                      requested_engine)
             ELSE [raises |-> "no", model |-> <<engine>>, files |-> mastering_files,
                   disk |-> written, message |-> <<>>]

\* Lines 379-401 with errors = [].
try_engines(engines, outcomes, disk, requested_engine) ==
    try_engines_from(engines, outcomes, disk, <<>>, requested_engine)

\* process_mastering(input_file, output_dir, params), MASTERING_ENGINE holding `value`.
process_mastering(value, outcomes, stale) ==
    LET requested_engine == requested_engine_of(value)
    IN  try_engines(candidate_engines(requested_engine), outcomes, stale, requested_engine)

\* The calls: MASTERING_ENGINE, what each engine does when called, and what an earlier
\* run of the job left at the mastered path.
MasteringCalls ==
    { [ pc |-> "called", requested_engine |-> requested_engine, outcomes |-> outcomes,
        stale |-> stale ] :
          requested_engine \in {Unset, "matchering_2_0", " SonicMaster ",
                                 "adaptive_dsp_mastering"},
          outcomes \in { o \in [MasteringEngines -> UNION {EngineOutcomes(e) : e \in MasteringEngines}] :
                             \A e \in MasteringEngines : o[e] \in EngineOutcomes(e) },
          stale \in {Missing, Passthrough, Audio(FALSE, FALSE, FALSE, FALSE, TRUE, TRUE, TRUE)} }

\* process_mastering runs to its end.
ProcessMastering ==
    LET c == mastering_call
        r == process_mastering(c.requested_engine, c.outcomes, c.stale)
    IN  /\ c.pc = "called"
        /\ mastering_call' = [ pc |-> "ended", requested_engine |-> c.requested_engine,
                               outcomes |-> c.outcomes, stale |-> c.stale,
                               raises |-> r.raises,
                               model |-> r.model, files |-> r.files, disk |-> r.disk,
                               message |-> r.message ]
        /\ UNCHANGED <<outsideTools, stem_call, callback_call, training_call, sandbox_run>>

NextMastering == ProcessMastering

\* Mastering alone.
InitMastering ==
    /\ WORKER_API_KEY = ApiKey /\ InitEngineVars /\ IdleCache /\ IdleLedger
    /\ stem_call = NoCall /\ mastering_call \in MasteringCalls /\ callback_call = NoCall
    /\ training_call = NoCall /\ sandbox_run = NoCall

SpecMastering == InitMastering /\ [][NextMastering]_vars

-----------------------------------------------------------------------------
(* dataset.py: the consented-sample ledger. capture_training_sample runs in a thread  *)
(* of its own (asyncio.to_thread in execute_job), so captures interleave at their     *)
(* file system operations. A write that raises leaves nothing behind. Each write      *)
(* system call on the manifest, opened for appending, adds its bytes at the end in one *)
(* piece. Lengths are counted in blocks of half the writer's buffer.                   *)

MaxCaptures == 2

MaxParams == 3

\* io.DEFAULT_BUFFER_SIZE, in blocks.
BufferSize == 2

\* The bytes of a file of the job's workspace.
file_bytes(job_id, name) == [job_id |-> job_id, file |-> name]

\* _file_hash: the digest of what the path holds.
file_hash(content) == sha256(content)

\* The length of the JSON text of a metadata dict, which grows with the job's params.
json_length(value) == value.params

\* json.dumps(value): one line of text, no line break in it, as its blocks in order.
\* With indent it is the same value over several lines.
json_dumps(value, indent) ==
    [part \in 1..json_length(value) |->
        [kind |-> "json", value |-> value, indent |-> indent, part |-> part]]

Newline == [kind |-> "newline"]

NotJson == [kind |-> "error"]

\* json.loads of a text: the value when the text is all the blocks of one json.dumps,
\* in order.
json_loads(text) ==
    IF /\ Len(text) >= 1
       /\ \A i \in DOMAIN text :
             /\ text[i].kind = "json"
             /\ text[i].part = i
             /\ text[i].value = text[1].value
       /\ Len(text) = json_length(text[1].value)
    THEN text[1].value
    ELSE NotJson

\* f.write(json.dumps(metadata) + "\n"): the text one capture appends.
manifest_line_no_newline(metadata) == json_dumps(metadata, 0)

manifest_line(metadata) == json_dumps(metadata, 0) \o <<Newline>>

\* The same text written buffer by buffer.
RECURSIVE buffered_write_by_buffer(_)
buffered_write_by_buffer(data) ==
    IF Len(data) <= BufferSize THEN <<data>>
    ELSE <<SubSeq(data, 1, BufferSize)>>
         \o buffered_write_by_buffer(SubSeq(data, BufferSize + 1, Len(data)))

\* open("a"), one f.write(data), close: the write system calls that reach the file. Data
\* that fits the buffer stays there until close flushes it; longer data is handed to
\* the raw file at once.
buffered_write(data) ==
    IF Len(data) <= BufferSize THEN <<data>> ELSE <<data>>

\* str.splitlines: the lines of a text, a last line with no line break included.
RECURSIVE splitlines_from(_, _, _)
splitlines_from(text, i, line) ==
    IF i > Len(text) THEN (IF line = <<>> THEN <<>> ELSE <<line>>)
    ELSE IF text[i].kind = "newline"
         THEN <<line>> \o splitlines_from(text, i + 1, <<>>)
         ELSE splitlines_from(text, i + 1, Append(line, text[i]))

splitlines(text) == splitlines_from(text, 1, <<>>)

\* The directory samples/<sample_id>, None when it was not made.
NoDir == [sample_id |-> 0, files |-> {}]

has_sample_dir(sample_id) == \E d \in sample_dirs : d.sample_id = sample_id

sample_dir(sample_id) ==
    IF has_sample_dir(sample_id)
    THEN CHOOSE d \in sample_dirs : d.sample_id = sample_id
    ELSE NoDir

\* Writing name into a directory replaces what it held under that name.
write_file(dir, name, content) ==
    [dir EXCEPT !.files =
        {f \in @ : f.name # name} \cup {[name |-> name, content |-> content]}]

put_dir(dir) == {d \in sample_dirs : d.sample_id # dir.sample_id} \cup {dir}

in_dir(dir, name) == \E f \in dir.files : f.name = name

read_file(dir, name) == (CHOOSE f \in dir.files : f.name = name).content

\* What execute_job hands over: the staged input and the files the tool produced.
CaptureInputs == {<<"input", ".wav">>, <<"input", ".mp3">>}

CaptureOutputs ==
    { <<>>,
      << <<"key-bpm", ".json">> >>,
      << <<"input-mastered", ".wav">>, <<"mastering-report", ".json">> >> }

metadata_name == <<"metadata", ".json">>

NewCapture(job_id, input_file, output_files, params) ==
    [ job_id |-> job_id, input_file |-> input_file, output_files |-> output_files,
      params |-> params, written |-> 0,
      at |-> "mkdir", sample_id |-> Len(captures) + 1,
      input_hash |-> "", output_manifest |-> <<>>, metadata |-> NotJson ]

\* The metadata dict (dataset.py 87-108), the fields the ledger's readers use.
metadata_of(c) ==
    [ sample_id |-> c.sample_id,
      job_id |-> c.job_id,
      input |-> [name |-> c.input_file, sha256 |-> c.input_hash],
      outputs |-> c.output_manifest,
      params |-> c.params,
      outcome |-> [output_count |-> Len(c.output_manifest)] ]

\* capture_training_sample is called; uuid4 gives an id no other sample has.
CaptureCall ==
    /\ Len(captures) < MaxCaptures
    /\ \E job_id \in JobIds, input_file \in CaptureInputs, output_files \in CaptureOutputs,
          params \in 1..MaxParams :
          captures' = Append(captures, NewCapture(job_id, input_file, output_files, params))
    /\ UNCHANGED <<outsideLedger, sample_dirs, manifest>>

\* sample_dir.mkdir(parents=True, exist_ok=True)
CaptureMkdir(c) ==
    /\ captures[c].at = "mkdir"
    /\ \E ok \in BOOLEAN :
          IF ok
          THEN /\ sample_dirs' =
                    IF has_sample_dir(captures[c].sample_id) THEN sample_dirs
                    ELSE sample_dirs \cup {[sample_id |-> captures[c].sample_id, files |-> {}]}
               /\ captures' = [captures EXCEPT ![c].at = "copy_input"]
          ELSE /\ captures' = [captures EXCEPT ![c].at = "raised"]
               /\ UNCHANGED sample_dirs
    /\ UNCHANGED <<outsideLedger, manifest>>

\* shutil.copy2(input_file, input_target); input_hash = _file_hash(input_target)
CaptureCopyInput(c) ==
    /\ captures[c].at = "copy_input"
    /\ LET cap == captures[c]
           dir == write_file(sample_dir(cap.sample_id), cap.input_file,
                             file_bytes(cap.job_id, cap.input_file))
       IN \E ok \in BOOLEAN :
             IF ok
             THEN /\ sample_dirs' = put_dir(dir)
                  /\ captures' = [captures EXCEPT
                        ![c].input_hash = file_hash(read_file(dir, cap.input_file)),
                        ![c].at = "copy_output"]
             ELSE /\ captures' = [captures EXCEPT ![c].at = "raised"]
                  /\ UNCHANGED sample_dirs
    /\ UNCHANGED <<outsideLedger, manifest>>

\* One turn of the loop over output_files: copy2, then the manifest entry with the
\* hash of the copy.
CaptureCopyOutput(c) ==
    /\ captures[c].at = "copy_output"
    /\ Len(captures[c].output_manifest) < Len(captures[c].output_files)
    /\ LET cap == captures[c]
           file == cap.output_files[Len(cap.output_manifest) + 1]
           dir == write_file(sample_dir(cap.sample_id), file, file_bytes(cap.job_id, file))
       IN \E ok \in BOOLEAN :
             IF ok
             THEN /\ sample_dirs' = put_dir(dir)
                  /\ captures' = [captures EXCEPT
                        ![c].output_manifest = Append(@,
                            [name |-> file, sha256 |-> file_hash(read_file(dir, file))])]
             ELSE /\ captures' = [captures EXCEPT ![c].at = "raised"]
                  /\ UNCHANGED sample_dirs
    /\ UNCHANGED <<outsideLedger, manifest>>

\* The loop is over: the metadata dict is built and written to metadata.json.
CaptureWriteMetadata(c) ==
    /\ captures[c].at = "copy_output"
    /\ Len(captures[c].output_manifest) = Len(captures[c].output_files)
    /\ LET cap == captures[c]
           metadata == metadata_of(cap)
       IN \E ok \in BOOLEAN :
             IF ok
             THEN /\ sample_dirs' = put_dir(write_file(sample_dir(cap.sample_id),
                                            metadata_name, json_dumps(metadata, 2)))
                  /\ captures' = [captures EXCEPT ![c].metadata = metadata,
                                                  ![c].at = "append_manifest"]
             ELSE /\ captures' = [captures EXCEPT ![c].at = "raised"]
                  /\ UNCHANGED sample_dirs
    /\ UNCHANGED <<outsideLedger, manifest>>

\* with manifest_path.open("a") as f: f.write(json.dumps(metadata) + "\n")
CaptureAppendManifest(c) ==
    /\ captures[c].at = "append_manifest"
    /\ LET writes == buffered_write(manifest_line(captures[c].metadata))
           next == captures[c].written + 1
       IN \E ok \in BOOLEAN :
             IF ok
             THEN /\ manifest' = manifest \o writes[next]
                  /\ captures' = [captures EXCEPT
                        ![c].written = next,
                        ![c].at = IF next = Len(writes) THEN "returned" ELSE @]
             ELSE /\ captures' = [captures EXCEPT ![c].at = "raised"]
                  /\ UNCHANGED manifest
    /\ UNCHANGED <<outsideLedger, sample_dirs>>

NextLedger ==
    \/ CaptureCall
    \/ \E c \in DOMAIN captures : CaptureMkdir(c)
    \/ \E c \in DOMAIN captures : CaptureCopyInput(c)
    \/ \E c \in DOMAIN captures : CaptureCopyOutput(c)
    \/ \E c \in DOMAIN captures : CaptureWriteMetadata(c)
    \/ \E c \in DOMAIN captures : CaptureAppendManifest(c)

InitLedger ==
    /\ WORKER_API_KEY = ApiKey /\ InitEngineVars /\ IdleCache /\ IdleTools /\ IdleLedger

SpecLedger == InitLedger /\ [][NextLedger]_vars

-----------------------------------------------------------------------------
(* main.py, security.py: post_callback and sign_payload as functions of the job's     *)
(* secret and the payload. A text is a sequence of characters, a character a code     *)
(* point or a piece of fixed ASCII text; bytes likewise. An ASCII piece encodes to    *)
(* itself under every encoding used here and holds nothing json.dumps escapes.       *)

MaxText == 1

Char(cp) == [cp |-> cp]

Ascii(piece) == [ascii |-> piece]

Byte(b) == [byte |-> b]

\* a, ", line feed, e acute, euro sign, an emoji outside the basic plane, a lone
\* surrogate (a Python str can hold one).
CodePoints == {97, 34, 10, 233, 8364, 128512, 55296}

Texts == UNION {[1..n -> {Char(cp) : cp \in CodePoints}] : n \in 0..MaxText}

RECURSIVE concat(_)
concat(seqs) == IF seqs = <<>> THEN <<>> ELSE Head(seqs) \o concat(Tail(seqs))

\* '0'..'9', 'a'..'f'
hexdigit(d) == Char(IF d < 10 THEN 48 + d ELSE 87 + d)

\* '\\u{0:04x}'
u_escape(n) ==
    <<Char(92), Char(117), hexdigit(n \div 4096), hexdigit((n \div 256) % 16),
      hexdigit((n \div 16) % 16), hexdigit(n % 16)>>

\* ensure_ascii=False: only the quote, the backslash and control characters are escaped.
encode_basestring(c) ==
    IF "ascii" \in DOMAIN c THEN <<c>>
    ELSE IF c.cp = 34 THEN <<Char(92), Char(34)>>
    ELSE IF c.cp = 92 THEN <<Char(92), Char(92)>>
    ELSE IF c.cp = 10 THEN <<Char(92), Char(110)>>
    ELSE IF c.cp < 32 THEN u_escape(c.cp)
    ELSE <<c>>

\* json.dumps escapes every character outside ' '..'~' (ensure_ascii is on by default),
\* one outside the basic plane as a surrogate pair.
encode_basestring_ascii(c) ==
    IF "ascii" \in DOMAIN c THEN <<c>>
    ELSE IF c.cp = 34 THEN <<Char(92), Char(34)>>
    ELSE IF c.cp = 92 THEN <<Char(92), Char(92)>>
    ELSE IF c.cp = 10 THEN <<Char(92), Char(110)>>
    ELSE IF c.cp >= 32 /\ c.cp <= 126 THEN <<c>>
    ELSE IF c.cp < 65536 THEN u_escape(c.cp)
    ELSE u_escape(55296 + (((c.cp - 65536) \div 1024) % 1024))
         \o u_escape(56320 + ((c.cp - 65536) % 1024))

\* json.dumps of a str value.
json_string(text) ==
    <<Ascii("\"")>> \o concat([i \in DOMAIN text |-> encode_basestring_ascii(text[i])])
    \o <<Ascii("\"")>>

\* The values of a payload: str, int, list and dict (its items in order).
JsonStr(text) == [kind |-> "str", value |-> text]

JsonInt(n) == [kind |-> "int", value |-> n]

JsonList(values) == [kind |-> "list", value |-> values]

JsonDict(items) == [kind |-> "dict", value |-> items]

\* json.dumps(payload, default=str) with its default separators ", " and ": ".
RECURSIVE json_value(_), json_list(_), json_items(_)
json_value(v) ==
    IF v.kind = "str" THEN json_string(v.value)
    ELSE IF v.kind = "int" THEN <<Ascii(ToString(v.value))>>
    ELSE IF v.kind = "list" THEN <<Ascii("[")>> \o json_list(v.value) \o <<Ascii("]")>>
    ELSE <<Ascii("{")>> \o json_items(v.value) \o <<Ascii("}")>>

json_list(values) ==
    IF values = <<>> THEN <<>>
    ELSE json_value(values[1])
         \o (IF Len(values) > 1 THEN <<Ascii(", ")>> ELSE <<>>)
         \o json_list(Tail(values))

json_items(items) ==
    IF items = <<>> THEN <<>>
    ELSE json_string(<<Ascii(items[1].key)>>) \o <<Ascii(": ")>> \o json_value(items[1].value)
         \o (IF Len(items) > 1 THEN <<Ascii(", ")>> ELSE <<>>)
         \o json_items(Tail(items))

json_dumps_payload(payload) == json_value(payload)

EncodeError == <<[error |-> "UnicodeEncodeError"]>>

\* str.encode of one character.
encode_char(c, encoding) ==
    IF "ascii" \in DOMAIN c THEN <<c>>
    ELSE IF encoding = "latin-1"
         THEN (IF c.cp < 256 THEN <<Byte(c.cp)>> ELSE EncodeError)
    ELSE IF c.cp < 128 THEN <<Byte(c.cp)>>
    ELSE IF c.cp < 2048 THEN <<Byte(192 + (c.cp \div 64)), Byte(128 + (c.cp % 64))>>
    ELSE IF c.cp >= 55296 /\ c.cp <= 57343 THEN EncodeError
    ELSE IF c.cp < 65536
         THEN <<Byte(224 + (c.cp \div 4096)), Byte(128 + ((c.cp \div 64) % 64)),
                Byte(128 + (c.cp % 64))>>
    ELSE <<Byte(240 + (c.cp \div 262144)), Byte(128 + ((c.cp \div 4096) % 64)),
           Byte(128 + ((c.cp \div 64) % 64)), Byte(128 + (c.cp % 64))>>

can_encode(text, encoding) ==
    \A i \in DOMAIN text : encode_char(text[i], encoding) # EncodeError

encode(text, encoding) == concat([i \in DOMAIN text |-> encode_char(text[i], encoding)])

\* HMAC-SHA256 and its digest in lowercase hexadecimal: different keys or messages
\* give different digests.
hmac_new(key, msg) == [hmac |-> "sha256", key |-> key, msg |-> msg]

hexdigest(mac) == [hex |-> mac, digits |-> "0123456789abcdef"]

\* security.py: sign_payload (called with texts that encode).
sign_payload(secret, body) ==
    hexdigest(hmac_new(encode(secret, "utf-8"), encode(body, "utf-8")))

\* The payload dicts execute_job builds (main.py 174-178, 255-262, 269-274).
Item(key, value) == [key |-> key, value |-> value]

running_payload(external_job_id) ==
    JsonDict(<< Item("externalJobId", JsonStr(external_job_id)),
            Item("status", JsonStr(<<Ascii("running")>>)),
            Item("progressPct", JsonInt(RunningProgressPct)) >>)

\* One artifact, as ArtifactPayload.model_dump(mode="json") gives it.
artifact_dump(external_job_id) ==
    JsonDict(<< Item("blobUrl", JsonStr(<<Ascii("https://worker/outputs/")>> \o external_job_id
                                \o <<Ascii("/key-bpm.json")>>)),
            Item("blobKey", JsonStr(<<Ascii("key-bpm.json")>>)),
            Item("format", JsonStr(<<Ascii("json")>>)),
            Item("sizeBytes", JsonInt(1)) >>)

succeeded_payload(external_job_id, fallback) ==
    JsonDict(<< Item("externalJobId", JsonStr(external_job_id)),
            Item("status", JsonStr(<<Ascii("succeeded")>>)),
            Item("progressPct", JsonInt(DoneProgressPct)),
            Item("model", JsonStr(IF fallback THEN <<Ascii("fallback_band_split")>>
                                          ELSE <<Ascii("essentia")>>)),
            Item("qualityFlags",
                 JsonList(IF fallback THEN <<JsonStr(<<Ascii("fallback_passthrough_output")>>)>>
                                  ELSE <<>>)),
            Item("artifacts", JsonList(<<artifact_dump(external_job_id)>>)) >>)

failed_payload(external_job_id, errorCode) ==
    JsonDict(<< Item("externalJobId", JsonStr(external_job_id)),
            Item("status", JsonStr(<<Ascii("failed")>>)),
            Item("progressPct", JsonInt(DoneProgressPct)),
            Item("errorCode", JsonStr(errorCode)) >>)

Payloads ==
    {running_payload(id) : id \in Texts}
    \cup {succeeded_payload(id, fallback) : id \in Texts, fallback \in BOOLEAN}
    \cup {failed_payload(id, e) : id \in Texts, e \in Texts}

\* webhookSecret: Field(min_length=16).
WebhookSecrets == {<<Ascii("0123456789abcde")>> \o s : s \in Texts \ {<<>>}}

\* A str body leaves as UTF-8 or as ISO-8859-1, by the version of the HTTP stack.
WireEncodings == {"utf-8", "latin-1"}

SignatureHeader == "x-soundmaxx-signature"

\* post_callback: the request it sends, or the exception it raises before sending.
post_callback(secret, payload, wire) ==
    LET raw == json_dumps_payload(payload)
    IN IF ~can_encode(secret, "utf-8") \/ ~can_encode(raw, "utf-8") \/ ~can_encode(raw, wire)
       THEN [pc |-> "raised", secret |-> secret, payload |-> payload]
       ELSE [pc |-> "sent", secret |-> secret, payload |-> payload,
             data |-> encode(raw, wire),
             headers |-> ("content-type" :> "application/json")
                         @@ (SignatureHeader :> sign_payload(secret, raw))]

CallbackCalls ==
    {[pc |-> "called", secret |-> s, payload |-> p, wire |-> w] :
        s \in WebhookSecrets, p \in Payloads, w \in WireEncodings}

PostCallback ==
    /\ callback_call.pc = "called"
    /\ callback_call' =
          post_callback(callback_call.secret, callback_call.payload, callback_call.wire)
    /\ UNCHANGED <<outsideTools, stem_call, mastering_call, training_call, sandbox_run>>

NextCallback == PostCallback

InitCallback ==
    /\ WORKER_API_KEY = ApiKey /\ InitEngineVars /\ IdleCache /\ IdleLedger
    /\ stem_call = NoCall /\ mastering_call = NoCall /\ callback_call \in CallbackCalls
    /\ training_call = NoCall /\ sandbox_run = NoCall

SpecCallback == InitCallback /\ [][NextCallback]_vars

-----------------------------------------------------------------------------
(* training_orchestrator.py: run_training_cycle as a function of the manifest's lines  *)
(* and the clock. Times are whole hours; a datetime is aware (an instant) or naive.    *)

MaxLines == 2

\* datetime.now(UTC) at the call.
Now == 10

Aware(hour) == [tz |-> "aware", hour |-> hour]

Naive(hour) == [tz |-> "naive", hour |-> hour]

\* The JSON values a line may hold under "captured_at".
JsonNull == [type |-> "null"]

JsonNumber(n) == [type |-> "number", number |-> n]

\* A string: ISO text of a datetime, or text that is no datetime ("" included).
IsoString(datetime) == [type |-> "str", iso |-> TRUE, datetime |-> datetime, empty |-> FALSE]

OtherString(empty) == [type |-> "str", iso |-> FALSE, datetime |-> Naive(0), empty |-> empty]

CapturedAtValues ==
    {JsonNull, JsonNumber(0), JsonNumber(17), OtherString(TRUE), OtherString(FALSE)}
    \cup {IsoString(Aware(hour)) : hour \in (Now - 3)..(Now + 1)}
    \cup {IsoString(Naive(Now - 1))}

\* The lines a manifest may hold: blank, not JSON, JSON that is no object, an object
\* without captured_at, an object with one.
ManifestLines ==
    {[text |-> "blank"], [text |-> "not_json"], [text |-> "array"], [text |-> "number"],
     [text |-> "object", has_captured_at |-> FALSE, captured_at |-> JsonNull]}
    \cup {[text |-> "object", has_captured_at |-> TRUE, captured_at |-> v] :
             v \in CapturedAtValues}

Manifests == UNION {[1..n -> ManifestLines] : n \in 0..MaxLines}

\* Python truth of a JSON value: None, 0 and "" are false.
truthy(value) ==
    IF value.type = "null" THEN FALSE
    ELSE IF value.type = "number" THEN value.number # 0
    ELSE ~value.empty

\* _parse_iso: None, a datetime, or the exception that leaves it.
parse_iso(value) ==
    IF ~truthy(value) THEN [raises |-> "no", none |-> TRUE, datetime |-> Naive(0)]
    ELSE IF value.type # "str"
    THEN [raises |-> "AttributeError", none |-> TRUE, datetime |-> Naive(0)]
    ELSE IF ~value.iso THEN [raises |-> "no", none |-> TRUE, datetime |-> Naive(0)]
    ELSE [raises |-> "no", none |-> FALSE, datetime |-> value.datetime]

\* a < b on two datetimes: TypeError when one is naive and the other aware.
datetime_lt(a, b) ==
    IF a.tz # b.tz THEN [raises |-> "TypeError", value |-> FALSE]
    ELSE [raises |-> "no", value |-> a.hour < b.hour]

\* One turn of the loop of _load_manifest_rows: "skip", "append", or the exception
\* that leaves the function.
load_row(line, window) ==
    IF line.text = "blank" THEN "skip"
    ELSE IF line.text = "not_json" THEN "skip"
    ELSE IF line.text # "object" THEN "AttributeError"
    ELSE LET parsed == parse_iso(IF line.has_captured_at THEN line.captured_at ELSE JsonNull)
             before == datetime_lt(parsed.datetime, window.start)
             after == datetime_lt(window.end, parsed.datetime)
         IN  IF parsed.raises # "no" THEN parsed.raises
             ELSE IF parsed.none THEN "skip"
             ELSE IF before.raises # "no" THEN before.raises
             ELSE IF before.value THEN "skip"
             ELSE IF after.raises # "no" THEN after.raises
             ELSE IF after.value THEN "skip"
             ELSE "append"

\* _load_manifest_rows: the rows kept, up to the first line that raises.
RECURSIVE load_manifest_rows(_, _, _, _)
load_manifest_rows(lines, window, i, rows) ==
    IF i > Len(lines) THEN [raises |-> "no", rows |-> rows]
    ELSE LET turn == load_row(lines[i], window)
         IN  IF turn = "skip" THEN load_manifest_rows(lines, window, i + 1, rows)
             ELSE IF turn = "append"
             THEN load_manifest_rows(lines, window, i + 1, Append(rows, lines[i]))
             ELSE [raises |-> turn, rows |-> rows]

Max(a, b) == IF a >= b THEN a ELSE b

\* run_training_cycle: what it returns and the artifact it wrote, or the exception.
run_training_cycle(lines, window_hours) ==
    LET window == [start |-> Aware(Now - Max(1, window_hours)), end |-> Aware(Now)]
        loaded == load_manifest_rows(lines, window, 1, <<>>)
    IN  IF loaded.raises # "no"
        THEN [pc |-> "raised", lines |-> lines, window |-> window, raises |-> loaded.raises,
              rows_used |-> 0, artifact |-> FALSE]
        ELSE [pc |-> "returned", lines |-> lines, window |-> window, raises |-> "no",
              rows_used |-> Len(loaded.rows), artifact |-> TRUE]

WindowHours == {0, 1, 2}

TrainingCalls ==
    {[pc |-> "called", lines |-> lines, window_hours |-> h] :
        lines \in Manifests, h \in WindowHours}

RunTrainingCycle ==
    /\ training_call.pc = "called"
    /\ training_call' = run_training_cycle(training_call.lines, training_call.window_hours)
    /\ UNCHANGED <<outsideTools, stem_call, mastering_call, callback_call, sandbox_run>>

NextTraining == RunTrainingCycle

InitTraining ==
    /\ WORKER_API_KEY = ApiKey /\ InitEngineVars /\ IdleCache /\ IdleLedger
    /\ stem_call = NoCall /\ mastering_call = NoCall /\ callback_call = NoCall
    /\ training_call \in TrainingCalls /\ sandbox_run = NoCall

SpecTraining == InitTraining /\ [][NextTraining]_vars

-----------------------------------------------------------------------------
(* processing.py: run_processing_with_hard_timeout as two processes. The parent waits  *)
(* in join; the child runs _run_processing_worker and exits; the queue is fed at the   *)
(* child's exit at the latest. Which of the child's end and the timeouts comes first   *)
(* is not determined.                                                                   *)

\* What run_processing does in the child: it returns, it raises an Exception, or the
\* process ends inside it (killed, or an exception `except Exception` does not catch).
ChildWork ==
    {[kind |-> "returns", model |-> <<"UVR-MDX-NET-Inst_HQ_5.onnx">>, files |-> StemFiles(stems),
      error |-> <<>>, exitcode |-> 0] : stems \in {2, 4}}
    \cup {[kind |-> "raises", model |-> <<>>, files |-> <<>>, error |-> e, exitcode |-> 0] :
             e \in {<<>>, Message(ShortLen), Message(LongLen)}}
    \cup {[kind |-> "dies", model |-> <<>>, files |-> <<>>, error |-> <<>>, exitcode |-> x] :
             x \in {1, -9, -11}}

\* Lines 725-738: the message the child puts.
worker_message(work) ==
    IF work.kind = "returns"
    THEN [ok |-> TRUE, model |-> work.model, files |-> work.files, error |-> <<>>]
    ELSE [ok |-> FALSE, model |-> <<>>, files |-> <<>>, error |-> work.error]

\* Mutant of hard_timeout_result: the ok flag of the message is not looked at.
hard_timeout_result_ignores_ok(result) ==
    Returned([model |-> IF result.model = <<>> THEN <<"unknown">> ELSE result.model,
              files |-> result.files])

\* Lines 768-773: what the parent makes of the message it got.
hard_timeout_result(result) ==
    IF ~result.ok
    THEN Raised("RuntimeError",
                IF result.error = <<>> THEN <<"processing_worker_failed">> ELSE result.error)
    ELSE Returned([model |-> IF result.model = <<>> THEN <<"unknown">> ELSE result.model,
                   files |-> result.files])

\* Line 766.
exited_without_result(exitcode) ==
    Raised("RuntimeError",
           <<"processing_worker_exited_without_result (exitcode=", ToString(exitcode), ")">>)

\* Line 761.
processing_timeout == Raised("TimeoutError", <<"processing_timeout_after_", "timeout_sec", "s">>)

\* process.start(): the child runs, the parent is in process.join(timeout_sec).
\*   buffer: what the child has put; queue: what has reached the pipe
\*   sigterm: process.terminate() was called
\*   child_at_raise: the state of the child when the parent raised
SandboxRuns ==
    {[pc |-> "join", work |-> w, child |-> "running", exitcode |-> 0, puts |-> 0,
      buffer |-> <<>>, queue |-> <<>>, expired |-> FALSE, sigterm |-> FALSE,
      result |-> Raised("no", <<>>), child_at_raise |-> "none"] : w \in ChildWork}

\* The child comes to the end of run_processing and puts its message (725-738).
ChildPuts ==
    /\ sandbox_run.pc # "none"
    /\ sandbox_run.child = "running" /\ sandbox_run.work.kind # "dies"
    /\ sandbox_run' = [sandbox_run EXCEPT !.child = "put", !.puts = @ + 1,
                          !.buffer = Append(@, worker_message(sandbox_run.work))]
    /\ UNCHANGED <<outsideTools, stem_call, mastering_call, callback_call, training_call>>

\* The child returns from its target and exits: the queue's feeder is joined first, so
\* what was put is in the pipe.
ChildExits ==
    /\ sandbox_run.pc # "none"
    /\ sandbox_run.child = "put"
    /\ sandbox_run' = [sandbox_run EXCEPT !.child = "exited", !.exitcode = 0,
                          !.queue = sandbox_run.buffer]
    /\ UNCHANGED <<outsideTools, stem_call, mastering_call, callback_call, training_call>>

\* The child ends inside run_processing, with nothing put.
ChildDies ==
    /\ sandbox_run.pc # "none"
    /\ sandbox_run.child = "running" /\ sandbox_run.work.kind = "dies"
    /\ sandbox_run' = [sandbox_run EXCEPT !.child = "exited",
                          !.exitcode = sandbox_run.work.exitcode]
    /\ UNCHANGED <<outsideTools, stem_call, mastering_call, callback_call, training_call>>

\* SIGTERM ends the child.
ChildTerminated ==
    /\ sandbox_run.pc # "none"
    /\ sandbox_run.sigterm /\ sandbox_run.child # "exited"
    /\ sandbox_run' = [sandbox_run EXCEPT !.child = "exited", !.exitcode = -15]
    /\ UNCHANGED <<outsideTools, stem_call, mastering_call, callback_call, training_call>>

\* Line 756: process.join(timeout_sec) returns, the child gone or the time over.
JoinEnds ==
    /\ sandbox_run.pc = "join"
    /\ sandbox_run' = [sandbox_run EXCEPT !.pc = "is_alive",
                          !.expired = sandbox_run.child # "exited"]
    /\ UNCHANGED <<outsideTools, stem_call, mastering_call, callback_call, training_call>>

\* Lines 758-759: if process.is_alive(): process.terminate()
IsAlive ==
    /\ sandbox_run.pc = "is_alive"
    /\ sandbox_run' =
          IF sandbox_run.child # "exited"
          THEN [sandbox_run EXCEPT !.pc = "join_terminated", !.sigterm = TRUE]
          ELSE [sandbox_run EXCEPT !.pc = "get_nowait"]
    /\ UNCHANGED <<outsideTools, stem_call, mastering_call, callback_call, training_call>>

\* Lines 760-761: process.join(timeout=10) returns, the child gone or the 10 s over,
\* and TimeoutError is raised.
RaiseTimeout ==
    /\ sandbox_run.pc = "join_terminated"
    /\ sandbox_run' = [sandbox_run EXCEPT !.pc = "raised", !.result = processing_timeout,
                          !.child_at_raise = sandbox_run.child]
    /\ UNCHANGED <<outsideTools, stem_call, mastering_call, callback_call, training_call>>

\* Lines 763-773: output.get_nowait() and what follows.
GetNowait ==
    /\ sandbox_run.pc = "get_nowait"
    /\ sandbox_run' =
          IF sandbox_run.queue = <<>>
          THEN [sandbox_run EXCEPT !.pc = "raised",
                   !.result = exited_without_result(sandbox_run.exitcode),
                   !.child_at_raise = sandbox_run.child]
          ELSE LET result == hard_timeout_result(Head(sandbox_run.queue))
               IN  [sandbox_run EXCEPT
                       !.pc = IF result.raises = "no" THEN "returned" ELSE "raised",
                       !.result = result, !.queue = Tail(@),
                       !.child_at_raise = sandbox_run.child]
    /\ UNCHANGED <<outsideTools, stem_call, mastering_call, callback_call, training_call>>

NextSandbox ==
    \/ ChildPuts
    \/ ChildExits
    \/ ChildDies
    \/ ChildTerminated
    \/ JoinEnds
    \/ IsAlive
    \/ RaiseTimeout
    \/ GetNowait

InitSandbox ==
    /\ WORKER_API_KEY = ApiKey /\ InitEngineVars /\ IdleCache /\ IdleLedger
    /\ stem_call = NoCall /\ mastering_call = NoCall /\ callback_call = NoCall
    /\ training_call = NoCall /\ sandbox_run \in SandboxRuns

SpecSandbox == InitSandbox /\ [][NextSandbox]_vars

-----------------------------------------------------------------------------
(* processing.py: the model selection of process_stem_isolation (stem_model_candidates *)
(* and the loop over the candidates), one step per candidate.                          *)

HQ_5 == "UVR-MDX-NET-Inst_HQ_5.onnx"
HQ_3 == "UVR-MDX-NET-Inst_HQ_3.onnx"
Karaoke == "mel_band_roformer_karaoke_aufr33_viperx_sdr_10.1956.ckpt"

\* Lines 58-62.
stable_fallbacks == <<HQ_5, HQ_3, Karaoke>>

\* str.strip() on the values the two variables are given.
strip(name) ==
    CASE name = " " -> ""
      [] name = " htdemucs_ft.yaml " -> "htdemucs_ft.yaml"
      [] OTHER -> name

\* os.getenv(name, default): the variable is unset (None) or has a value.
getenv(value, default) == IF value = Unset THEN default ELSE value

\* last_error = None
NoError == "(None)"

\* Lines 66-70: the names of combined, without the empty ones and the repeated ones.
RECURSIVE dedupe(_, _)
dedupe(combined, deduped) ==
    IF combined = <<>> THEN deduped
    ELSE LET name == Head(combined)
         IN  IF name # "" /\ name \notin range(deduped)
             THEN dedupe(Tail(combined), Append(deduped, name))
             ELSE dedupe(Tail(combined), deduped)

\* stem_model_candidates(preferred), with the values of STEM_MODEL_DEMUCS_NAME and
\* STEM_MODEL_ROFORMER_NAME.
stem_model_candidates(preferred, demucs_env, roformer_env) ==
    LET demucs_default == strip(getenv(demucs_env, HQ_5))
        roformer_default == strip(getenv(roformer_env, HQ_5))
        combined == IF preferred = "demucs_v4"
                    THEN <<demucs_default>> \o stable_fallbacks
                    ELSE <<roformer_default>> \o stable_fallbacks
    IN  dedupe(combined, <<>>)

\* What the two variables hold.
ModelEnv == {Unset, " ", " htdemucs_ft.yaml ", HQ_3}

\* str(params.get("fallbackModel") or "mel_band_roformer")
PreferredModels == {"demucs_v4", "mel_band_roformer", "spleeter"}

\* What separator.separate returns: no file, or the two files of a model.
SeparateReturns ==
    { <<>>,
      << Separated("Vocals", "UVR-MDX-NET-Inst_HQ_5"),
         Separated("Instrumental", "UVR-MDX-NET-Inst_HQ_5") >> }

\* The exceptions load_model and separate raise, by their text.
InnerErrors == {"model file not found", "onnxruntime error"}

\* process_stem_isolation is called (lines 337-344): the state before the loop.
\*   candidates: the list the loop runs over; tried: the candidates the loop body ran
\*   for, with what load_model + separate did; at: the index of the next candidate
SelectionCalls ==
    { [ pc |-> "loop", route |-> "selection", preferred |-> preferred,
        candidates |-> stem_model_candidates(preferred, demucs_env, roformer_env),
        demucs_env |-> demucs_env, roformer_env |-> roformer_env,
        at |-> 1, tried |-> <<>>, output_files |-> <<>>, resolved_model |-> "",
        last_error |-> NoError, raises |-> "no", message |-> <<>>, model |-> "" ] :
          preferred \in PreferredModels, demucs_env \in ModelEnv, roformer_env \in ModelEnv }

\* Lines 346-351: load_model and separate return for the candidate; the loop is left.
LoadAndSeparate ==
    \E files \in SeparateReturns :
        LET c == stem_call
            model_name == c.candidates[c.at]
        IN  /\ c.pc = "loop" /\ c.at <= Len(c.candidates)
            /\ stem_call' = [c EXCEPT !.pc = "after_loop",
                                !.tried = Append(@, [name |-> model_name, did |-> "returned",
                                                     files |-> files]),
                                !.output_files = files, !.resolved_model = model_name]
            /\ UNCHANGED <<outsideTools, mastering_call, callback_call, training_call, sandbox_run>>

\* Lines 352-353: load_model or separate raises for the candidate; the next one is tried.
LoadOrSeparateRaises ==
    \E exc \in InnerErrors :
        LET c == stem_call
            model_name == c.candidates[c.at]
        IN  /\ c.pc = "loop" /\ c.at <= Len(c.candidates)
            /\ stem_call' = [c EXCEPT !.at = @ + 1, !.last_error = exc,
                                !.tried = Append(@, [name |-> model_name, did |-> "raised",
                                                     files |-> <<>>])]
            /\ UNCHANGED <<outsideTools, mastering_call, callback_call, training_call, sandbox_run>>

\* The candidates are used up.
LoopEnds ==
    /\ stem_call.pc = "loop" /\ stem_call.at > Len(stem_call.candidates)
    /\ stem_call' = [stem_call EXCEPT !.pc = "after_loop"]
    /\ UNCHANGED <<outsideTools, mastering_call, callback_call, training_call, sandbox_run>>

\* Lines 355-357: no output files.
SeparationFailed ==
    LET c == stem_call
        suffix == IF c.last_error # NoError THEN <<": ", c.last_error>> ELSE <<>>
    IN  /\ c.pc = "after_loop" /\ c.output_files = <<>>
        /\ stem_call' = [c EXCEPT !.pc = "ended", !.raises = "RuntimeError",
                            !.message = <<"Stem isolation model load/separation failed">>
                                        \o suffix]
        /\ UNCHANGED <<outsideTools, mastering_call, callback_call, training_call, sandbox_run>>

\* Lines 359-369: the files are made canonical and zipped, the model is returned.
SelectionReturns ==
    LET c == stem_call
        r == process_stem_isolation(c.output_files, 4, range(c.output_files), TRUE)
    IN  /\ c.pc = "after_loop" /\ c.output_files # <<>>
        /\ stem_call' = [c EXCEPT !.pc = "ended", !.raises = r.raises,
                            !.model = c.resolved_model]
        /\ UNCHANGED <<outsideTools, mastering_call, callback_call, training_call, sandbox_run>>

NextSelection ==
    \/ LoadAndSeparate
    \/ LoadOrSeparateRaises
    \/ LoopEnds
    \/ SeparationFailed
    \/ SelectionReturns

\* The model selection alone.
InitSelection ==
    /\ WORKER_API_KEY = ApiKey /\ InitEngineVars /\ IdleCache /\ IdleLedger
    /\ stem_call \in SelectionCalls /\ mastering_call = NoCall /\ callback_call = NoCall
    /\ training_call = NoCall /\ sandbox_run = NoCall

SpecSelection == InitSelection /\ [][NextSelection]_vars

-----------------------------------------------------------------------------
(* Claims *)

Terminal == {"succeeded", "failed"}

Rank(status) == IF status = "queued" THEN 0 ELSE IF status = "running" THEN 1 ELSE 2

\* The record the execution t writes to.
StatusOf(t) == heap[tasks[t].status]

\* The payloads of execution t's webhook POSTs that carry `status`.
PostsWith(t, status) ==
    {i \in 1..Len(tasks[t].posts) : tasks[t].posts[i].status = status}

\* The job id of execution t was registered by one POST /jobs only.
SinglePost(t) ==
    Cardinality({u \in Tasks : tasks[u].job.jobId = tasks[t].job.jobId}) = 1

\* C1: for a job accepted by a single POST /jobs, the status of its record never goes
\* backwards along queued -> running -> succeeded|failed, and once the status is
\* succeeded or failed no field of the record changes again.
C1_StatusMonotonicTerminalStable ==
    [][ \A t \in Tasks :
          (SinglePost(t) /\ tasks[t].status # 0) =>
             /\ Rank(heap'[tasks[t].status].status) >= Rank(StatusOf(t).status)
             /\ StatusOf(t).status \in Terminal => heap'[tasks[t].status] = StatusOf(t) ]_vars

\* C2: a job that got as far as sending its succeeded callback (staging, tool run,
\* listing and capture succeeded) ends with status = succeeded, whether or not that
\* POST raised.
C2_CallbackFailureKeepsOutcome ==
    \A t \in Tasks :
        (tasks[t].pc \in Ended /\ PostsWith(t, "succeeded") # {}) =>
            StatusOf(t).status = "succeeded"

\* C3: a job whose tool run succeeded (capture_training_sample was called) and whose
\* succeeded callback did not raise ends with status = succeeded and has sent its
\* succeeded callback, whether or not the capture raised.
C3_CaptureFailureKeepsOutcome ==
    \A t \in Tasks :
        (tasks[t].pc \in Ended /\ tasks[t].capture_calls > 0
            /\ tasks[t].raised_at # "cb_succeeded") =>
            /\ StatusOf(t).status = "succeeded"
            /\ PostsWith(t, "succeeded") # {}

\* C4: a stem_isolation job whose sandbox call raised Timeout and whose fallback
\* synthesizer completed (and whose artifacts could be listed) ends with
\* status = succeeded and model = fallback_band_split, and its succeeded callback
\* carries qualityFlags = ["fallback_passthrough_output"]; every succeeded callback
\* carries the flag iff its model begins with "fallback_".
FallbackCompleted(t) ==
    /\ tasks[t].sandbox = "TimeoutError"
    /\ tasks[t].fallback_calls > 0
    /\ tasks[t].pc # "fallback"
    /\ tasks[t].raised_at \notin {"tool", "listing"}

C4_TimeoutFallbackSucceeds ==
    \A t \in Tasks :
        /\ (tasks[t].pc \in Ended /\ FallbackCompleted(t)) =>
              /\ StatusOf(t).status = "succeeded"
              /\ StatusOf(t).model = <<"fallback_", "band_split">>
              /\ \E i \in PostsWith(t, "succeeded") :
                    tasks[t].posts[i].qualityFlags = <<"fallback_passthrough_output">>
        /\ \A i \in PostsWith(t, "succeeded") :
              (tasks[t].posts[i].qualityFlags = <<"fallback_passthrough_output">>)
                 <=> (Len(tasks[t].posts[i].model) > 0 /\ tasks[t].posts[i].model[1] = "fallback_")

\* C5: build_stem_timeout_fallback runs only for a stem_isolation job whose sandbox
\* call raised Timeout, and at most once; after any other sandbox error, after a staging
\* error, and for every other tool it never runs.
C5_FallbackOnlyAfterTimeout ==
    \A t \in Tasks :
        /\ tasks[t].fallback_calls > 0 =>
              /\ tasks[t].job.toolType = "stem_isolation"
              /\ tasks[t].sandbox = "TimeoutError"
              /\ tasks[t].fallback_calls = 1
        /\ (tasks[t].sandbox = "RuntimeError" \/ tasks[t].raised_at = "stage"
              \/ tasks[t].job.toolType # "stem_isolation") =>
              /\ tasks[t].fallback_calls = 0
              /\ tasks[t].pc # "fallback"

\* C5 witness: the fallback ran after a Timeout and the execution ended.
C5_Witness ==
    \E t \in Tasks :
        tasks[t].fallback_calls = 1 /\ tasks[t].sandbox = "TimeoutError" /\ tasks[t].pc = "done"

\* C6: when a step of execute_job raised after the status was set to running
\* (workspace re-creation, staging, tool run, artifact listing), the execution ends
\* with status = failed, progressPct = 100 and errorCode = the first 120 characters of
\* the message.
C6_RaiseEndsFailed ==
    \A t \in Tasks :
        (tasks[t].pc \in Ended /\ tasks[t].raised_at \in {"recreate", "stage", "tool", "listing"}) =>
            /\ StatusOf(t).status = "failed"
            /\ StatusOf(t).progressPct = 100
            /\ StatusOf(t).errorCode = SubSeq(tasks[t].exc, 1, Min(Len(tasks[t].exc), 120))

\* C7: in the step that ends an execution, on every path, the workspace of its job
\* does not exist afterwards; and no step removes an output directory.
C7_WorkspaceGoneOutputKept ==
    [][ /\ \A t \in Tasks :
              (tasks[t].pc \notin Ended /\ tasks'[t].pc \in Ended) =>
                  tasks[t].job.jobId \notin workspace'
        /\ output_dir \subseteq output_dir' ]_vars

\* C8: an authorized POST /jobs registers a record with status = queued,
\* model = initial_model(toolType), etaSec = 180, progressPct = 5, schedules one
\* execution for it (one per registered record, not yet started), and the response is
\* that record, still queued.
C8_PostRegistersQueued ==
    /\ Len(tasks) = Len(heap)
    /\ (http.op = "POST" /\ http.code = 200) =>
          LET n == Len(tasks)
              job == tasks[n].job
          IN  /\ http.header = <<"Bearer ">> \o WORKER_API_KEY
              /\ job.jobId = http.jobId
              /\ tasks[n].pc = "scheduled"
              /\ job_statuses[job.jobId] = n
              /\ heap[n] = http.body[1]
              /\ http.body[1].externalJobId = job.jobId
              /\ http.body[1].status = "queued"
              /\ http.body[1].model = initial_model(job.toolType)
              /\ http.body[1].etaSec = 180
              /\ http.body[1].progressPct = 5
              /\ http.body[1].errorCode = None
              /\ http.body[1].artifacts = <<>>

\* C8 witness: a mastering job was just accepted.
C8_Witness ==
    /\ http.op = "POST" /\ http.code = 200
    /\ tasks[Len(tasks)].job.toolType = "mastering"
    /\ http.body[1].model = <<"matchering_2_0">>

\* C9: with WORKER_API_KEY configured, a request to POST /jobs or GET /jobs/{id} is
\* accepted (answered 200 or 404) iff its Authorization header is exactly
\* "Bearer " + WORKER_API_KEY, and every other request is answered 401.
C9_BearerExactOr401 ==
    (WORKER_API_KEY # None /\ http.op \in {"POST", "GET"}) =>
        IF http.header = <<"Bearer ">> \o WORKER_API_KEY
        THEN http.code \in {200, 404}
        ELSE http.code = 401

\* C10: an authorized GET /jobs/{id} is answered 404 iff no POST /jobs with that job id
\* was ever accepted, and otherwise 200 with the registered record as it is now; the
\* registry entry of an accepted job id is never removed.
C10_GetKnownJob ==
    /\ \A j \in accepted : job_statuses[j] # 0
    /\ (http.op = "GET" /\ WORKER_API_KEY # None
          /\ http.header = <<"Bearer ">> \o WORKER_API_KEY) =>
          /\ http.code \in {200, 404}
          /\ http.code = 404 <=> http.jobId \notin accepted
          /\ http.code = 200 => http.body = <<heap[job_statuses[http.jobId]]>>

\* C10 witness: GET answers 200 with the record of a job that has finished.
C10_Witness ==
    /\ http.op = "GET" /\ http.code = 200
    /\ http.body[1].status = "succeeded"
    /\ \E t \in Tasks : tasks[t].pc = "done"

\* The files of a set within both cache limits (a limit of 0 is off).
WithinLimits(files) ==
    /\ SOURCE_CACHE_MAX_FILES > 0 => Cardinality(files) <= SOURCE_CACHE_MAX_FILES
    /\ SOURCE_CACHE_MAX_BYTES > 0 =>
          total_size(sorted_by_mtime(files)) <= SOURCE_CACHE_MAX_BYTES

\* The step in which the stage call s returns from prune_source_cache.
PruneReturns(s) ==
    stagers[s].pc \in {"prune", "evict"} /\ stagers'[s].pc = "link"

\* What the prune of a stage call removed, kept and enumerated.
Enumerated(st) == {st.enumerated[i] : i \in 1..Len(st.enumerated)}
Kept(st) == Enumerated(st) \ st.removed

C12_EvictsOldestFirst ==
    \A s \in Stagers :
        \A f \in stagers[s].removed, g \in Enumerated(stagers[s]) :
            g.mtime < f.mtime => g \in stagers[s].removed

\* C12 amended: whenever a prune has removed a file, every file it enumerated with an
\* older mtime has been removed too or its deletion was tried before and failed; with
\* SOURCE_CACHE_MAX_FILES = 2, an unlimited byte count and no failed deletion, a cache
\* holding A and B (A older) holds exactly B and C after C was staged.
C12_EvictsOldestFirstOrFailed ==
    \A s \in Stagers :
        /\ \A f \in stagers[s].removed, g \in Enumerated(stagers[s]) :
              g.mtime < f.mtime => g \in stagers[s].removed \cup stagers[s].failed
        /\ ( /\ Len(stagers) = 1 /\ stagers[s].pc = "link" /\ stagers[s].failed = {}
             /\ SOURCE_CACHE_MAX_FILES = 2 /\ SOURCE_CACHE_MAX_BYTES = 0
             /\ stagers[s].source_url = UrlC
             /\ Len(stagers[s].enumerated) = 3 ) =>
               {f.name : f \in cache_root} = {source_cache_path(UrlB), source_cache_path(UrlC)}

\* C12 witness: A, B and C were in the cache in that order, and the prune with
\* SOURCE_CACHE_MAX_FILES = 2 removed A alone.
C12_Witness ==
    \E s \in Stagers :
        /\ stagers[s].pc = "link" /\ SOURCE_CACHE_MAX_FILES = 2
        /\ {f.name : f \in stagers[s].removed} = {source_cache_path(UrlA)}
        /\ {f.name : f \in cache_root} = {source_cache_path(UrlB), source_cache_path(UrlC)}

\* The exceptions of a download that failed or was empty.
DownloadErrors == {"RuntimeError", "HTTPError", "ChunkedEncodingError"}

\* C13: a stage_source_audio call that found a non-empty cache entry, or completed a
\* non-empty download, does not end with an exception.
C13_StageMaterializes ==
    \A s \in Stagers :
        stagers[s].pc = "raised" =>
            /\ ~stagers[s].hit
            /\ stagers[s].downloads > 0
            /\ stagers[s].raised \in DownloadErrors

\* C14: two stage calls for the same URL against an empty cache (the one entry the
\* cache holds in the end was downloaded in this run), with both limits off and no
\* download error: once both have ended, one download was made in all, both
\* returned with their target in place, and the cache holds the one entry named
\* sha256(scheme://host/path) + suffix.
C14_SameUrlOneDownload ==
    ( /\ Len(stagers) = 2
      /\ stagers[1].source_url = stagers[2].source_url
      /\ SOURCE_CACHE_MAX_FILES = 0 /\ SOURCE_CACHE_MAX_BYTES = 0
      /\ \A f \in cache_root : /\ f.name = source_cache_path(stagers[1].source_url)
                                /\ f \notin UNION StartCaches
      /\ \A s \in Stagers : /\ stagers[s].pc \in {"returned", "raised"}
                            /\ stagers[s].raised \notin DownloadErrors ) =>
        /\ stagers[1].downloads + stagers[2].downloads = 1
        /\ \A s \in Stagers : stagers[s].pc = "returned" /\ stagers[s].target
        /\ Cardinality(cache_root) = 1
        /\ \A f \in cache_root :
              f.name = [cache_key |-> [sha256 |-> <<"https", "://", "h", "/", "a", ".", "wav">>],
                        suffix |-> <<".", "wav">>, tmp |-> 0]
              \/ stagers[1].source_url \notin {UrlA, UrlASigned}

\* C15: a stage call that finds its cache entry present takes the stat, one that finds
\* it non-empty takes the link-or-copy, and from then on no step of the call downloads
\* or changes the cache root: it only links or copies to its target.
C15_WarmStageOnlyLinks ==
    [][ \A s \in Stagers :
          LET st == stagers[s]
              cached_path == source_cache_path(st.source_url)
          IN  stagers'[s] # st =>
                /\ (st.pc = "exists" /\ path_exists(cached_path)) => stagers'[s].pc = "stat"
                /\ (st.pc = "stat" /\ path_exists(cached_path) /\ file_at(cached_path).size > 0) =>
                      stagers'[s].hit /\ stagers'[s].pc = "link"
                /\ st.hit =>
                      /\ cache_root' = cache_root
                      /\ stagers'[s].downloads = 0
                      /\ stagers'[s].pc \in {"copy", "returned", "raised"} ]_vars

\* C15 witness: a call found its entry, made no download and returned with its target.
C15_Witness ==
    \E s \in Stagers :
        /\ stagers[s].hit /\ stagers[s].pc = "returned" /\ stagers[s].target
        /\ stagers[s].downloads = 0

\* The name of a path as one text.
NameOf(path) == path.stem \o path.suffix

\* C16: every stem isolation call that returns, by the separator or by the timeout
\* fallback, returns exactly input-vocals.wav, input-drums.wav, input-bass.wav,
\* input-other.wav and then input-stems.zip when stems >= 4, and exactly
\* input-vocals.wav, input-accompaniment.wav and then the zip when stems < 4, each name
\* once, and the zip holds exactly the WAVs listed.
C16_StemNamesExact ==
    (stem_call.pc = "ended" /\ stem_call.raises = "no") =>
        LET names == [i \in 1..Len(stem_call.files) |-> NameOf(stem_call.files[i])]
            wavs == IF stem_call.stems >= 4
                    THEN << <<"input", "-vocals", ".", "wav">>, <<"input", "-drums", ".", "wav">>,
                            <<"input", "-bass", ".", "wav">>, <<"input", "-other", ".", "wav">> >>
                    ELSE << <<"input", "-vocals", ".", "wav">>,
                            <<"input", "-accompaniment", ".", "wav">> >>
        IN  /\ names = wavs \o << <<"input", "-stems", ".", "zip">> >>
            /\ \A i, j \in 1..Len(names) : i # j => names[i] # names[j]
            /\ [i \in 1..Len(stem_call.zip) |-> NameOf(stem_call.zip[i])] = wavs

\* C16 witness: the separator returned two files and four stems were asked for.
C16_Witness ==
    /\ stem_call.pc = "ended" /\ stem_call.raises = "no"
    /\ stem_call.route = "separator" /\ stem_call.stems = 4
    /\ Len(stem_call.output_files) = 2 /\ Len(stem_call.files) = 5

\* C17: when process_mastering returns, the engine it names returned without raising,
\* the first audio file of the returned list is <stem>-mastered.wav, that file exists,
\* and it is distinct from the source: the file sizes differ, or the sample rates
\* differ, or the shapes differ, or the buffers are not empty and
\* mean(|out - in|) >= 1e-5 or mean(|out - in|) / max(mean(|in|), 1e-8) >= 5e-4.
C17_MasteringReturnsDistinct ==
    (mastering_call.pc = "ended" /\ mastering_call.raises = "no") =>
        LET c == mastering_call
            audio_suffixes == { <<".", x>> : x \in {"wav", "mp3", "flac", "ogg", "aac", "m4a",
                                                    "aif", "aiff"} }
            audio == {i \in 1..Len(c.files) : c.files[i].suffix \in audio_suffixes}
            first == CHOOSE i \in audio : \A j \in audio : i <= j
        IN  /\ Len(c.model) = 1 /\ c.model[1] \in MasteringEngines
            /\ c.outcomes[c.model[1]].raises = "no"
            /\ audio # {}
            /\ c.files[first].stem \o c.files[first].suffix = <<"input", "-mastered", ".", "wav">>
            /\ c.disk # Missing
            /\ \/ c.disk.size_differs
               \/ c.disk.readable /\ c.disk.rate_differs
               \/ c.disk.readable /\ c.disk.shape_differs
               \/ c.disk.readable /\ ~c.disk.empty /\ (c.disk.delta \/ c.disk.relative)

\* C17 witness: the first two engines wrote a copy of the source and were rejected, and
\* the result of adaptive_dsp_mastering was returned.
C17_Witness ==
    /\ mastering_call.pc = "ended" /\ mastering_call.raises = "no"
    /\ mastering_call.model = <<"adaptive_dsp_mastering">>
    /\ mastering_call.outcomes["matchering_2_0"] = EngineOutcome("no", Passthrough)
    /\ mastering_call.outcomes["sonicmaster"] = EngineOutcome("no", Passthrough)

\* The captures that ran to their end without raising.
CompletedCaptures == {c \in DOMAIN captures : captures[c].at = "returned"}

\* The input and every output of the capture c are in its sample directory, each
\* with the digest of the copy on record.
CopiedAndHashed(c) ==
    LET cap == captures[c]
        dir == sample_dir(cap.sample_id)
    IN /\ in_dir(dir, cap.input_file)
       /\ cap.input_hash = file_hash(read_file(dir, cap.input_file))
       /\ Len(cap.output_manifest) = Len(cap.output_files)
       /\ \A i \in DOMAIN cap.output_files :
             /\ in_dir(dir, cap.output_files[i])
             /\ cap.output_manifest[i].name = cap.output_files[i]
             /\ cap.output_manifest[i].sha256 = file_hash(read_file(dir, cap.output_files[i]))

HasMetadata(sample_id) ==
    /\ has_sample_dir(sample_id)
    /\ in_dir(sample_dir(sample_id), metadata_name)

\* C18: after N completed captures manifest.jsonl holds exactly N lines, each one a
\* parseable JSON record whose sample directory holds a metadata.json with the same
\* sample_id; a metadata.json exists only once the input and every output were copied
\* and hashed, and a manifest line exists only once its metadata.json was written.
C18_ManifestMatchesCaptures ==
    LET lines == splitlines(manifest)
    IN /\ Len(lines) = Cardinality(CompletedCaptures)
       /\ \A i \in DOMAIN lines :
             LET record == json_loads(lines[i])
             IN /\ record # NotJson
                /\ HasMetadata(record.sample_id)
                /\ LET written == json_loads(read_file(sample_dir(record.sample_id),
                                                       metadata_name))
                   IN written # NotJson /\ written.sample_id = record.sample_id
       /\ \A c \in DOMAIN captures :
             HasMetadata(captures[c].sample_id) => CopiedAndHashed(c)

\* Two interleaved captures completed, the second one's line first, and the first
\* one copied two outputs.
C18_Witness ==
    /\ Cardinality(CompletedCaptures) = 2
    /\ Len(splitlines(manifest)) = 2
    /\ json_loads(splitlines(manifest)[1]).sample_id = 2
    /\ Len(captures[1].output_files) = 2

\* C19: callbacks are at-most-once: an execution attempts at most one running POST
\* and at most one terminal POST (succeeded or failed, never both), and repeats none.
C19_CallbacksAtMostOnce ==
    \A t \in Tasks :
        /\ Cardinality(PostsWith(t, "running")) <= 1
        /\ Cardinality(PostsWith(t, "succeeded") \cup PostsWith(t, "failed")) <= 1

\* The signature the receiver computes over the bytes it got, with the secret's bytes
\* as the key.
ExpectedSignature(secret, body_bytes) ==
    hexdigest(hmac_new(encode(secret, "utf-8"), body_bytes))

\* C20: every webhook POST (running, succeeded, failed) carries the signature header,
\* the lowercase hex HMAC-SHA256, keyed with the job's webhookSecret, of exactly the
\* body bytes of that request.
C20_SignatureOverBodySent ==
    callback_call.pc = "sent" =>
        /\ SignatureHeader \in DOMAIN callback_call.headers
        /\ callback_call.headers[SignatureHeader] =
              ExpectedSignature(callback_call.secret, callback_call.data)

\* A failed callback whose errorCode has a character outside ASCII was sent with a
\* secret outside ASCII, the body leaving as ISO-8859-1.
C20_Witness ==
    /\ callback_call.pc = "sent"
    /\ Len(callback_call.payload.value) = 4
    /\ callback_call.payload.value[4].value = JsonStr(<<Char(233)>>)
    /\ callback_call.secret[2] = Char(8364)
    /\ SignatureHeader \in DOMAIN callback_call.headers

\* C21: a process started without WORKER_API_KEY never comes to serve a POST /jobs or
\* GET /jobs/{id} request: no such request is ever handled and answered.
C21_NoKeyNeverServes ==
    (WORKER_API_KEY = None \/ WORKER_API_KEY = <<>>) => http.op = "none"

\* The positions at which an execution has its workspace in use: from its re-creation
\* to the end of the last call that reads or writes under it.
UsingWorkspace == {"stage", "sandbox", "fallback", "tool", "capture"}

\* The step in which execution t deletes and re-creates its workspace (lines 185-187),
\* writes the staged input into it (194), or deletes it (finally, 279-281).
TouchesWorkspace(t) ==
    /\ tasks'[t].pc # tasks[t].pc
    /\ \/ tasks[t].pc \in {"cb_running", "stage"}
       \/ tasks'[t].pc = "done"

\* C22: the workspace of a job is exclusive to one execution: no execution deletes,
\* re-creates or writes <TMP_ROOT>/<jobId> while another execution is using it, a
\* repeated POST of a running jobId included.
C22_WorkspaceExclusive ==
    [][ \A t \in Tasks, u \in Tasks :
            (t # u /\ tasks[t].job.jobId = tasks[u].job.jobId /\ TouchesWorkspace(t))
                => tasks[u].pc \notin UsingWorkspace ]_vars

\* capture_training_sample was called by execution t and returned: it appended the
\* sample's line to manifest.jsonl (its last statement).
InManifest(t) ==
    /\ tasks[t].capture_calls > 0
    /\ tasks[t].pc # "capture"
    /\ tasks[t].raised_at # "capture"

\* C23: the ledger gets a sample only for jobs that succeeded: an execution calls
\* capture_training_sample at most once, only with its record succeeded, and no
\* execution that ended with status failed has a line in manifest.jsonl. (Stated for
\* job ids posted once, so that the record is the execution's own.)
C23_LedgerOnlySucceeded ==
    \A t \in Tasks :
        SinglePost(t) =>
            /\ tasks[t].capture_calls <= 1
            /\ tasks[t].pc = "capture" => StatusOf(t).status = "succeeded"
            /\ (tasks[t].pc \in Ended /\ StatusOf(t).status = "failed") => ~InManifest(t)

\* C24: manifest appends are atomic by line: with captures running concurrently, at
\* every moment manifest.jsonl is a sequence of whole lines, each one complete JSON
\* record, the bytes of no two records interleaved.
C24_AppendsAtomicByLine ==
    /\ manifest # <<>> => manifest[Len(manifest)] = Newline
    /\ \A i \in DOMAIN splitlines(manifest) :
          json_loads(splitlines(manifest)[i]) # NotJson

\* Two captures whose lines are longer than the writer's buffer were at their append
\* at the same time, and both lines are in the manifest, the second capture's first.
C24_Witness ==
    /\ Len(captures) = 2
    /\ captures[1].params = MaxParams /\ captures[2].params = MaxParams
    /\ captures[1].at = "append_manifest" /\ captures[2].at = "returned"
    /\ Len(splitlines(manifest)) = 1
    /\ json_loads(splitlines(manifest)[1]).sample_id = 2

\* The line is a JSON object whose captured_at is a string holding a datetime with a
\* UTC offset, inside the window.
InWindow(line, window) ==
    /\ line.text = "object" /\ line.has_captured_at
    /\ line.captured_at.type = "str" /\ line.captured_at.iso
    /\ line.captured_at.datetime.tz = "aware"
    /\ window.start.hour <= line.captured_at.datetime.hour
    /\ line.captured_at.datetime.hour <= window.end.hour

\* C25: run_training_cycle never aborts on a malformed manifest line (not JSON, not an
\* object, captured_at missing, not a string, unparseable or without a UTC offset): it
\* completes, writes its artifact, and rows_used counts exactly the rows with
\* window.start <= captured_at <= window.end.
C25_MalformedLinesSkipped ==
    training_call.pc \in {"returned", "raised"} =>
        /\ training_call.pc = "returned"
        /\ training_call.artifact
        /\ training_call.rows_used =
              Cardinality({i \in DOMAIN training_call.lines :
                              InWindow(training_call.lines[i], training_call.window)})

\* C26: a child still alive when timeoutSec expires is terminated and Timeout is
\* raised, and the child is no longer running when Timeout is raised (so it cannot
\* write to the output directory while the fallback synthesizer does).
C26_ChildGoneWhenTimeoutRaised ==
    /\ (sandbox_run.pc \in {"returned", "raised"} /\ sandbox_run.sigterm)
          => sandbox_run.result.raises = "TimeoutError"
    /\ (sandbox_run.pc = "raised" /\ sandbox_run.result.raises = "TimeoutError")
          => sandbox_run.child_at_raise = "exited"

\* The parent raised the error of line 766 (the child exited without a message).
IsWorkerExited(result) ==
    /\ result.raises = "RuntimeError"
    /\ result.message =
          <<"processing_worker_exited_without_result (exitcode=",
            ToString(sandbox_run.exitcode), ")">>

\* What a call whose child exited before the timeout ends with, where failure_text is
\* the text the parent's error carries for a posted {ok: false, error}.
ResultFollowsChildMessage(failure_text) ==
    /\ sandbox_run.pc # "none" => sandbox_run.puts <= 1
    /\ (sandbox_run.pc \in {"returned", "raised"} /\ ~sandbox_run.sigterm) =>
          LET work == sandbox_run.work
              result == sandbox_run.result
          IN  /\ work.kind = "returns" <=> sandbox_run.pc = "returned"
              /\ sandbox_run.pc = "returned" =>
                    result.model = work.model /\ result.files = work.files
              /\ work.kind = "raises" <=>
                    (sandbox_run.pc = "raised" /\ ~IsWorkerExited(result))
              /\ work.kind = "raises" =>
                    /\ result.raises = "RuntimeError"
                    /\ result.message = failure_text
              /\ sandbox_run.puts = 0 <=> IsWorkerExited(result)
              /\ sandbox_run.puts = 1 => sandbox_run.queue = <<>>

\* C27 as stated: for a child that exited before the timeout, the call returns
\* (model, files) iff the child posted {ok: true}, raises the tool failure carrying the
\* posted error iff it posted {ok: false, error}, and raises the worker-exited error with
\* the exit code iff it exited without posting; the child posts at most one message, and
\* a message posted before the exit is received by the parent.
C27_FailureCarriesPostedError ==
    ResultFollowsChildMessage(sandbox_run.work.error)

\* C27, amended: as stated, except that for a posted error that is the empty string the
\* tool failure carries "processing_worker_failed".
C27_ResultFollowsChildMessage ==
    ResultFollowsChildMessage(IF sandbox_run.work.error = <<>>
                              THEN <<"processing_worker_failed">>
                              ELSE sandbox_run.work.error)

\* A child posted {ok: false, error} and exited in time; the parent raised that error.
C27_Witness ==
    /\ sandbox_run.pc = "raised" /\ ~sandbox_run.sigterm /\ ~sandbox_run.expired
    /\ sandbox_run.work.kind = "raises" /\ sandbox_run.work.error = Message(ShortLen)
    /\ sandbox_run.result.message = Message(ShortLen)
    /\ sandbox_run.puts = 1

\* The candidates the loop body ran for, in the order it ran for them.
TriedNames == [i \in 1..Len(stem_call.tried) |-> stem_call.tried[i].name]

\* load_model + separate succeeded for the i-th candidate tried.
Succeeded(i) == stem_call.tried[i].did = "returned"

\* The name the variant prefers, as configured.
PreferredName ==
    strip(getenv(IF stem_call.preferred = "demucs_v4" THEN stem_call.demucs_env
                 ELSE stem_call.roformer_env, HQ_5))

\* C28: the candidates are the preferred name, then the stable fallbacks, without empty
\* and repeated names; they are tried in list order; the first candidate whose load +
\* separate succeeds is reported as the model and no candidate is tried after it; the
\* call fails with the separation failure, carrying the last inner error, only when no
\* candidate succeeded.
C28_FirstSuccessfulCandidate ==
    stem_call.pc # "none" =>
        LET c == stem_call
            n == Len(c.tried)
        IN  /\ c.candidates = dedupe(<<PreferredName>> \o stable_fallbacks, <<>>)
            /\ \A i, j \in 1..Len(c.candidates) :
                   c.candidates[i] # "" /\ (i # j => c.candidates[i] # c.candidates[j])
            /\ n <= Len(c.candidates) /\ TriedNames = SubSeq(c.candidates, 1, n)
            /\ \A i \in 1..(n - 1) : ~Succeeded(i)
            /\ c.pc = "ended" =>
                  /\ (\E i \in 1..n : Succeeded(i)) =>
                        c.raises = "no" /\ c.model = c.tried[n].name
                  /\ c.raises # "no" =>
                        /\ n = Len(c.candidates) /\ \A i \in 1..n : ~Succeeded(i)
                        /\ c.message = <<"Stem isolation model load/separation failed",
                                         ": ", c.last_error>>

\* The engine rejected or failed in the mastering call: it raised, left no mastered
\* file, or left one that is not distinct from the source. `before` is what the mastered
\* path held when the engine was called.
EngineRejected(engine, before) ==
    LET outcome == mastering_call.outcomes[engine]
        written == IF outcome.raises = "no" /\ outcome.writes # Missing
                   THEN outcome.writes ELSE before
    IN  \/ outcome.raises # "no"
        \/ written = Missing
        \/ mastered_audio_is_distinct(written).raises # "no"
        \/ ~mastered_audio_is_distinct(written).value

\* What the mastered path holds after the first n engines of `order` ran.
RECURSIVE DiskAfter(_, _)
DiskAfter(order, n) ==
    IF n = 0 THEN mastering_call.stale
    ELSE LET outcome == mastering_call.outcomes[order[n]]
         IN  IF outcome.raises = "no" /\ outcome.writes # Missing THEN outcome.writes
             ELSE DiskAfter(order, n - 1)

\* The order of the claim: the requested engine, the other of the two, the DSP path.
RequestedOrder ==
    LET requested == requested_engine_of(mastering_call.requested_engine)
    IN  <<requested,
          CHOOSE e \in {"sonicmaster", "matchering_2_0"} : e # requested,
          "adaptive_dsp_mastering">>

\* Why the engine was rejected, as text.
RejectionText(engine, before) ==
    LET outcome == mastering_call.outcomes[engine]
        written == IF outcome.writes # Missing THEN outcome.writes ELSE before
    IN  IF outcome.raises # "no" THEN outcome.error
        ELSE IF written = Missing THEN <<Piece("Mastering output file is missing", 32)>>
        ELSE IF mastered_audio_is_distinct(written).raises # "no"
        THEN <<Piece("Error opening the file: Format not recognised.", 46)>>
        ELSE <<Piece("Mastering output is effectively unchanged from source audio", 59)>>

\* "engine: error" of the three engines, joined by "; ".
FullSummary(order) ==
    LET entry(i) == <<engine_text(order[i]), Piece(": ", 2)>>
                    \o RejectionText(order[i], DiskAfter(order, i - 1))
    IN  entry(1) \o <<Piece("; ", 2)>> \o entry(2) \o <<Piece("; ", 2)>> \o entry(3)

\* C29: with sonicmaster or matchering_2_0 requested, the engines are tried in the order
\* requested, the other of the two, adaptive_dsp_mastering; the call returns the model
\* name of the first engine that is passed, every engine before it having failed or
\* been rejected; it fails only when all three were rejected, and then its error holds
\* at most 1200 characters of the per-engine summary.
C29_FirstAcceptedEngine ==
    ( /\ mastering_call.pc = "ended"
      /\ requested_engine_of(mastering_call.requested_engine)
            \in {"sonicmaster", "matchering_2_0"} ) =>
        LET c == mastering_call
            order == RequestedOrder
            passed == {i \in 1..3 : ~EngineRejected(order[i], DiskAfter(order, i - 1))}
            head == <<Piece("Mastering failed across all engines (", 37),
                      engine_text(order[1]), Piece("): ", 3)>>
            summary == SubSeq(c.message, 4, Len(c.message))
            errors == [i \in 1..3 |-> <<engine_text(order[i]), Piece(": ", 2)>>]
        IN  /\ c.raises = "no" <=> passed # {}
            /\ c.raises = "no" =>
                  \E i \in passed :
                      /\ c.model = <<order[i]>>
                      /\ \A j \in 1..(i - 1) : j \notin passed
            /\ c.raises # "no" =>
                  /\ SubSeq(c.message, 1, 3) = head
                  /\ text_len(summary) <= SummaryLen
                  /\ SubSeq(summary, 1, 2) = errors[1]
                  /\ summary = cut(FullSummary(order), SummaryLen)
                  /\ text_len(summary) = Min(text_len(FullSummary(order)), SummaryLen)

\* All three engines raised with long texts: the summary was cut.
C29_Witness ==
    /\ mastering_call.pc = "ended" /\ mastering_call.raises = "RuntimeError"
    /\ mastering_call.requested_engine = " SonicMaster "
    /\ \A e \in MasteringEngines : mastering_call.outcomes[e] = EngineRaises(MaxStderr)
    /\ text_len(SubSeq(mastering_call.message, 4, Len(mastering_call.message))) = SummaryLen

\* The produced files of the ended call that exist, in the order they were produced.
ProducedFiles == SelectSeq(stem_call.output_files, LAMBDA path : path \in stem_call.disk)

\* The stems of the four-stem order that the loop assigned a file.
Assigned == DOMAIN stem_call.mapped

\* The produced files that match the keywords of a stem.
Matching(stem_name) ==
    {i \in 1..Len(ProducedFiles) : matches(ProducedFiles[i], STEM_KEYWORDS[stem_name])}

\* The files that the stems before the k-th of the order took.
TakenBefore(k) ==
    {stem_call.mapped[STEM_ORDER_4[j]] : j \in {j \in 1..(k - 1) : STEM_ORDER_4[j] \in Assigned}}

\* The condition under which the four stems are synthesized from two.
CanSynthesize == Matching("vocals") # {} /\ Matching("accompaniment") # {}

\* C30: in the four-stem canonicalization each of vocals, drums, bass, other, in that
\* order, takes the first produced file not yet taken that matches its keywords, and no
\* file is taken by two stems; with a stem left without a file, the synthesis from
\* vocals + accompaniment is attempted exactly when the produced files hold a vocals
\* match and an accompaniment match, and the call fails with the missing stems, listed
\* in order, iff a stem is without a file and that condition does not hold.
C30_FourStemAssignment ==
    ( /\ stem_call.pc = "ended" /\ stem_call.route = "separator"
      /\ stem_call.stems >= 4 /\ ProducedFiles # <<>> ) =>
        LET c == stem_call
            unassigned == SelectSeq(STEM_ORDER_4, LAMBDA stem_name : stem_name \notin Assigned)
        IN  /\ Assigned \subseteq range(STEM_ORDER_4)
            /\ \A k \in 1..4 :
                  LET stem_name == STEM_ORDER_4[k]
                      free == {i \in Matching(stem_name) : ProducedFiles[i] \notin TakenBefore(k)}
                  IN  /\ stem_name \in Assigned <=> free # {}
                      /\ stem_name \in Assigned =>
                            \E i \in free : /\ c.mapped[stem_name] = ProducedFiles[i]
                                            /\ \A j \in free : i <= j
            /\ \A s, t \in Assigned : s # t => c.mapped[s] # c.mapped[t]
            /\ c.synthesis <=> (unassigned # <<>> /\ CanSynthesize)
            /\ ( /\ c.raises = "RuntimeError"
                 /\ c.message = <<"Stem isolation missing required stems: ">> \o unassigned )
               <=> (unassigned # <<>> /\ ~CanSynthesize)

\* The separator of a two-stem model returned the vocals and the instrumental: vocals
\* and other took them, drums and bass were left without a file, and the four stems
\* were synthesized.
C30_Witness ==
    /\ stem_call.pc = "ended" /\ stem_call.route = "separator" /\ stem_call.stems = 4
    /\ stem_call.raises = "no" /\ stem_call.synthesis
    /\ DOMAIN stem_call.mapped = {"vocals", "other"}
    /\ stem_call.mapped["vocals"] = Separated("Vocals", "UVR-MDX-NET-Inst_HQ_5")
    /\ stem_call.mapped["other"] = Separated("Instrumental", "UVR-MDX-NET-Inst_HQ_5")

\* C31: once capture_training_sample has returned or raised, the sample directory it
\* made, if any, holds a metadata.json: a capture that fails part-way leaves no
\* partially written sample directory.
C31_NoPartialSampleDir ==
    \A c \in DOMAIN captures :
        (captures[c].at \in {"returned", "raised"} /\ has_sample_dir(captures[c].sample_id))
            => HasMetadata(captures[c].sample_id)

\* The files of the cache root whose name carries / does not carry the temp marker.
TempFiles(root) == {f \in root : f.name.tmp # 0}
CacheEntries(root) == {f \in root : f.name.tmp = 0}

\* The stage call s renames its temp file to its cache entry in this step.
Renames(s) ==
    /\ stagers[s].pc = "replace" /\ stagers'[s].pc = "prune"
    /\ \E temp \in TempFiles(cache_root) :
          /\ temp.name = temp_path(stagers[s].source_url, s)
          /\ temp.complete /\ temp.size > 0
          /\ temp \notin cache_root'
          /\ [temp EXCEPT !.name = source_cache_path(stagers[s].source_url)] \in cache_root'

\* Every cache entry is a complete, non-empty download, and a temp file is the file of
\* one stage call, named after it.
EntriesComplete ==
    /\ \A f \in CacheEntries(cache_root) : f.complete /\ f.size > 0
    /\ \A f \in TempFiles(cache_root) :
          /\ f.name.tmp \in Stagers
          /\ f.name = temp_path(stagers[f.name.tmp].source_url, f.name.tmp)
          /\ \A g \in cache_root : g.name = f.name => g = f

\* What a step may do to the cache root.
EntriesByRenameOnly ==
    /\ \A f \in CacheEntries(cache_root') \ cache_root :
          \E s \in Stagers : Renames(s) /\ f.name = source_cache_path(stagers[s].source_url)
    /\ \A f \in TempFiles(cache_root') \ cache_root :
          /\ \A g \in cache_root : g.name # f.name
          /\ stagers[f.name.tmp].pc = "download"
    /\ \A f \in TempFiles(cache_root) \ cache_root' : Renames(f.name.tmp)
    /\ \A s \in Stagers :
          (stagers[s].pc = "download" /\ stagers'[s].raised = "RuntimeError") =>
              /\ cache_root' = cache_root
              /\ \A f \in cache_root : f.name # temp_path(stagers[s].source_url, s)

\* C32: every file of the cache root without the temp marker is a complete, non-empty
\* download; no two downloads share a temp file; a cache entry appears only by the
\* rename of a finished, non-empty temp file; an empty download removes its temp file
\* and fails without making an entry; prune removes no file with the temp marker.
C32_EntriesAreCompleteDownloads ==
    []EntriesComplete /\ [][EntriesByRenameOnly]_vars

\* An empty download failed and left nothing, and a later download of the same URL
\* made the entry and returned.
C32_Witness ==
    /\ Len(stagers) = 2
    /\ stagers[1].raised = "RuntimeError"
    /\ stagers[2].source_url = stagers[1].source_url /\ stagers[2].pc = "returned"
    /\ \E f \in CacheEntries(cache_root) :
          f.name = source_cache_path(stagers[2].source_url) /\ f \notin UNION StartCaches

\* How far a record is: queued, running, ended.
StatusRank(status) ==
    CASE status = "queued" -> 0
      [] status = "running" -> 1
      [] OTHER -> 2

\* The record GET /jobs/{id} reads for a registered job id.
Registered(registry, objects, id) == objects[registry[id]]

\* C33: under any sequence of POST /jobs, a repeated jobId included, the record that
\* GET /jobs/{id} reads never goes back (from running or succeeded to queued), and it is
\* the record that the job's running execution updates.
C33_RegistryNeverRegresses ==
    [][ /\ \A id \in JobIds :
              job_statuses[id] # 0 =>
                  StatusRank(Registered(job_statuses', heap', id).status)
                      >= StatusRank(Registered(job_statuses, heap, id).status)
        /\ \A t \in Tasks :
              tasks[t].pc \notin Ended \cup {"scheduled"} =>
                  tasks[t].status = job_statuses'[tasks[t].job.jobId] ]_vars

\* C34: in stem canonicalization the produced file used as the vocals source is never
\* also the accompaniment source, in the two-stem mode and in the four-stem synthesis
\* from vocals + accompaniment, for every list of produced files in every order.
C34_VocalsNotAccompaniment ==
    ( /\ stem_call.pc = "ended" /\ stem_call.route = "separator"
      /\ stem_call.accompaniment_source # NoPath ) =>
        stem_call.vocals_source # stem_call.accompaniment_source

\* The execution t attempts a webhook POST in this step: the payload it sends.
Sends(t) == Len(tasks'[t].posts) = Len(tasks[t].posts) + 1
Sent(t) == tasks'[t].posts[Len(tasks'[t].posts)]

\* In this step the execution t keeps the order of its callbacks: staging starts only
\* once the running callback ended, a terminal callback is sent only after that, and the
\* succeeded callback is sent with the job's record reading succeeded, with the
\* artifacts of the payload.
CallbacksInOrder(t) ==
    LET id == tasks[t].job.jobId
        record == heap'[job_statuses'[id]]
    IN  /\ (tasks[t].pc # "stage" /\ tasks'[t].pc = "stage") =>
              /\ tasks[t].pc = "cb_running"
              /\ Len(tasks[t].posts) = 1 /\ tasks[t].posts[1].status = "running"
        /\ (Sends(t) /\ Sent(t).status \in {"succeeded", "failed"}) =>
              /\ tasks[t].pc \notin {"scheduled", "cb_running"}
              /\ tasks[t].posts[1].status = "running"
        /\ (Sends(t) /\ Sent(t).status = "succeeded") =>
              /\ record.status = "succeeded"
              /\ record.artifacts = Sent(t).artifacts

\* C35: within one execution the running callback attempt has ended before staging
\* starts, so that no terminal callback is sent before or while the running callback is;
\* and when the succeeded callback is sent, the job's record reads succeeded, with its
\* artifacts.
C35_CallbacksInOrder ==
    [][ \A t \in Tasks : CallbacksInOrder(t) ]_vars

\* The same for the executions of job ids posted once.
CallbacksInOrderSinglePost ==
    [][ \A t \in Tasks : SinglePost(t) => CallbacksInOrder(t) ]_vars

\* C36: a stage_source_audio call that failed (the download raised part-way, the
\* response was not 2xx, or the body was empty) has left no temp file of its own in the
\* cache root, so that temp files cannot pile up over failed jobs.
C36_FailedStageLeavesNoTemp ==
    \A s \in Stagers :
        stagers[s].pc = "raised" =>
            \A f \in cache_root : f.name # temp_path(stagers[s].source_url, s)

====
